---------------------------- MODULE Spec2Model ----------------------------
(***************************************************************************)
(* A model of the Ashare_data acquisition pipeline:                        *)
(*   storage/sqlite.py      SQLiteStorage (upserts, missing_daily_dates)   *)
(*   fetchers/daily.py      DailyFetcher (priority fallback, _clean)       *)
(*   scheduler/*.py         run_initial_load, run_daily_update             *)
(*   utils/rate_limiter.py  AsyncRateLimiter, async_retry                  *)
(*   providers/*.py         fetch_daily of the two concrete providers      *)
(*                                                                         *)
(* Dates are day numbers: day 1 is Thursday 2024-01-04, so that days 3 and *)
(* 4 are a weekend.                                                        *)
(***************************************************************************)
EXTENDS Integers, Sequences, FiniteSets, TLC

(***************************************************************************)
(* Bounds of the model.                                                    *)
(***************************************************************************)
MaxPrice == 2
MaxProviders == 2
MaxDay == 5
MaxSymbols == 2
MaxRate == 2
MaxPer == 2
MaxTime == 4
MaxCalls == 4
MaxAttempts == 3
MaxBaseDelay == 2
MaxFetches == 2
MaxTxns == 2
MaxClose == 3
MaxClients == 3
MaxLines == 2
MaxRetries == 2
MaxBackoff == 1
MaxInterval == 2

\* the pages with entries the listing source has
MaxPages == 2

VARIABLES
    \* ---- SQLiteStorage: the three tables (sets of rows)
    securities,
    daily_bars,
    adjustment_factors,
    \* the last storage call and its outcome: [op, ...]; `replaced` says that
    \* a committed upsert changed a row that was there
    last_call,
    \* history: (symbol, day) -> the Bar most recently committed with that key
    written,
    \* ---- DailyFetcher
    \* self._providers: the providers [id, priority] in the order they are tried
    \* (id is the provider's place in the constructor's input)
    providers,
    \* the fetch in progress: its place in the code, the (symbol, trade_date)
    \* asked for, the index of the provider tried next, the result returned
    f_pc,
    f_req,
    f_idx,
    f_result,
    \* history: the fetch_daily calls of this fetch, in order: [id, kind]
    f_calls,
    \* ---- the schedulers (run_initial_load, run_daily_update)
    \* the trade date the daily updates of this behaviour are run for
    today,
    \* the run in progress: its place in the code and its locals
    s_pc,
    s_mode,
    s_symbols,
    s_calendar,
    s_i,
    s_j,
    s_bars,
    s_missing_map,
    s_bar,
    \* history: the storage and fetcher calls of the run (of the symbol being
    \* loaded, in run_initial_load), in order: [call, ...]
    s_events,
    \* history: the symbols of the run's symbol set without a Bar for `today`
    \* when the run started
    s_missing_at_start,
    \* history: how the run before this one ended
    s_prev,
    \* the `symbols` argument of run_daily_update: None or [list |-> symbols]
    s_symbols_arg,
    \* ---- AsyncRateLimiter, async_retry and the providers' fetch_daily
    \* the event loop's clock
    now,
    \* the limiter's constructor arguments
    rate,
    period,
    \* asyncio.Semaphore: _value and _waiters, the futures [task, done] in
    \* the order they were appended
    sem_value,
    sem_waiters,
    \* the _delayed_release tasks asleep, oldest first: [granted, due]
    release_tasks,
    \* history: the times at which acquire() returned
    grants,
    \* the number of calls the tasks have started
    n_calls,
    \* the calling tasks: where each one is
    t_pc,
    \* async_retry's arguments and, per task, the wrapper's locals
    retry_cfg,
    t_retry,
    \* the time a task's asyncio.sleep ends
    t_due,
    \* history: the times at which an HTTP GET was issued
    gets,
    \* ---- SQLite transactions of concurrent upserts
    \* per writing thread: its connection [pc, kind, batch, records, view]:
    \* `records` are those of the batch still to be applied, `view` is the
    \* table as the connection sees it, its uncommitted rows included
    tx,
    \* the connection that holds the database's write lock
    tx_lock,
    \* history: the batches committed, in commit order: [kind, records]
    tx_commits,
    \* the last SELECT of a reader: [kind, rows, during]
    tx_seen,
    \* the number of upserts started
    n_txns,
    \* ---- the data sources behind the providers
    \* [fixed, closed]: when `fixed`, the sources serve the same data at every
    \* request: a Bar for every day but those in `closed`; otherwise a
    \* request may return a Bar, return nothing or fail
    market,
    \* ---- provider payloads
    \* the payload a provider's request returned last: [provider, payload]
    resp,
    \* ---- DailyFetcher.close()
    \* [pc, idx, called, raising]: the position in the loop over the
    \* providers, the providers whose close() was called, in call order, and
    \* the providers whose close() raises
    closing,
    \* ---- the HTTP clients of the providers
    \* per provider [injected, pc, made, open, failed, last, injected_closed]:
    \* whether a client was passed to the constructor, the position in
    \* _request_daily, the number of clients it created, those of them not
    \* closed, whether the request of the current attempt failed, how the last
    \* attempt ended, and whether aclose() was called on the injected client
    clients,
    \* ---- the rate limiters of the providers
    \* [state, of, last]: the AsyncRateLimiter objects that exist, by name;
    \* for each provider constructed the name of its self._rate_limiter; and
    \* the last construction of a limiter [id, rate, per, raised]
    limiters,
    \* ---- load_trading_calendar
    \* [file, start, end, pc, result]: the lines of the calendar file (None
    \* without a file), the window, and the list returned
    calendar_run,
    \* ---- AshareClient
    \* the state of one client and of the requests made through it
    client_req,
    \* ---- list_all_stocks
    \* the state of one call of list_all_stocks
    listing,
    \* ---- DailyFetcher._clean called on a Bar: [pc, arg, result], or None
    clean_call

storageVars == <<securities, daily_bars, adjustment_factors, last_call, written>>

fetcherVars == <<providers, f_pc, f_req, f_idx, f_result, f_calls>>

schedVars == <<today, s_pc, s_mode, s_symbols, s_calendar, s_i, s_j, s_bars,
               s_missing_map, s_bar, s_events, s_missing_at_start, s_prev, s_symbols_arg,
               s_symbols_arg>>

netVars == <<now, rate, period, sem_value, sem_waiters, release_tasks, grants, n_calls,
             t_pc, retry_cfg, t_retry, t_due, gets>>

txVars == <<tx, tx_lock, tx_commits, tx_seen, n_txns>>

lateVars == <<calendar_run, client_req, listing, clean_call>>

moreVars == <<market, resp, closing, clients, limiters, lateVars>>

extVars == <<txVars, moreVars>>

vars == <<storageVars, fetcherVars, schedVars, netVars, extVars>>

Symbols == {"000001", "600000"}

StoreDates == {1, 2}

(***************************************************************************)
(* SQLiteStorage.initialize on a new database file: three empty tables.    *)
(***************************************************************************)
InitStorageTables ==
    /\ securities = {}
    /\ daily_bars = {}
    /\ adjustment_factors = {}
    /\ last_call = [op |-> "none"]
    /\ written = <<>>


(***************************************************************************)
(* Generic helpers.                                                        *)
(***************************************************************************)
Range(s) == {s[i] : i \in DOMAIN s}

SeqsUpTo(S, n) == UNION {[1..k -> S] : k \in 0..n}

(***************************************************************************)
(* Python floats.  float() accepts the text "nan" (and response.json() the *)
(* literal NaN), so a price a provider parsed is a number or NaN; the      *)
(* model writes NaN as a value below every price.  Every comparison with   *)
(* NaN is false.                                                           *)
(***************************************************************************)
NaN == 0 - 1

float_lt(a, b) == a # NaN /\ b # NaN /\ a < b

float_le(a, b) == a # NaN /\ b # NaN /\ a <= b

\* max(a, b) keeps a unless b > a; min(a, b) keeps a unless b < a
Max2(a, b) == IF float_lt(a, b) THEN b ELSE a

Min2(a, b) == IF float_lt(b, a) THEN b ELSE a

(***************************************************************************)
(* date.isoformat(): "YYYY-MM-DD", zero padded, as a tuple of its parts.   *)
(* Day n of the model is 2024-01-(n+3) up to n = 28 and 2024-02-(n-28)     *)
(* after.                                                                  *)
(***************************************************************************)
isoformat(d) ==
    LET month == IF d <= 28 THEN 1 ELSE 2
        day == IF d <= 28 THEN d + 3 ELSE d - 28
    IN <<2024, "-", month \div 10, month % 10, "-", day \div 10, day % 10>>

(***************************************************************************)
(* date.weekday(): Monday is 0.  date.toordinal() of day n is 738888 + n.  *)
(***************************************************************************)
weekday(d) == (738888 + d + 6) % 7

(***************************************************************************)
(* json_dumps(bar.raw): the serialized text of the raw payload.            *)
(***************************************************************************)
json_dumps(data) == <<"json", data>>

(***************************************************************************)
(* ProviderResult: the Bar a provider produces.                            *)
(***************************************************************************)
ProviderResult(symbol, trade_date, open, high, low, close, volume, turnover, raw) ==
    [symbol |-> symbol, trade_date |-> trade_date, open |-> open, high |-> high,
     low |-> low, close |-> close, volume |-> volume, turnover |-> turnover,
     raw |-> raw]

(***************************************************************************)
(* SQLiteStorage.upsert_daily_bars: the record tuple built for each bar.   *)
(***************************************************************************)
daily_bar_record(bar) ==
    [symbol |-> bar.symbol, trade_date |-> isoformat(bar.trade_date),
     open |-> bar.open, high |-> bar.high, low |-> bar.low, close |-> bar.close,
     volume |-> bar.volume, turnover |-> bar.turnover,
     raw_payload |-> json_dumps(bar.raw)]

SameKey(r1, r2) == r1.symbol = r2.symbol /\ r1.trade_date = r2.trade_date

(***************************************************************************)
(* INSERT ... ON CONFLICT(symbol, trade_date) DO UPDATE SET <every non-key *)
(* column>=excluded.<column>, for one record.                              *)
(***************************************************************************)
\* a statement that would clear the table before it inserts
insert_into_cleared(table, rec) == {rec}

insert_keep_existing(table, rec) ==
    IF \E r \in table : SameKey(r, rec) THEN table ELSE table \cup {rec}

insert_on_conflict_update(table, rec) ==
    {r \in table : ~SameKey(r, rec)} \cup {rec}

(***************************************************************************)
(* conn.executemany(sql, records): the statement applied to each record in *)
(* order.                                                                  *)
(***************************************************************************)
RECURSIVE executemany(_, _)
executemany(table, records) ==
    IF records = <<>> THEN table
    ELSE executemany(insert_on_conflict_update(table, Head(records)), Tail(records))

(***************************************************************************)
(* SQLiteStorage._existing_dates_sync: SELECT trade_date FROM daily_bars   *)
(* WHERE symbol = ?                                                        *)
(***************************************************************************)
existing_dates_any_symbol(table, symbol) == {r.trade_date : r \in table}

existing_dates_sync(table, symbol) ==
    {r.trade_date : r \in {x \in table : x.symbol = symbol}}

(***************************************************************************)
(* SQLiteStorage.missing_daily_dates: the dates of `dates`, in order,      *)
(* whose isoformat() is not among the existing dates of the symbol.        *)
(***************************************************************************)
missing_daily_dates(table, symbol, dates) ==
    LET existing == existing_dates_sync(table, symbol)
        keep(d) == isoformat(d) \notin existing
    IN SelectSeq(dates, keep)

None == [none |-> TRUE]

(***************************************************************************)
(* No scheduler run exists (the specifications of the other components).   *)
(***************************************************************************)
NoScheduler ==
    /\ today = 1
    /\ s_pc = "idle"
    /\ s_mode = "none"
    /\ s_symbols = <<>>
    /\ s_calendar = <<>>
    /\ s_i = 1
    /\ s_j = 1
    /\ s_bars = <<>>
    /\ s_missing_map = <<>>
    /\ s_bar = None
    /\ s_events = <<>>
    /\ s_missing_at_start = {}
    /\ s_prev = "none"
    /\ s_symbols_arg = None

(***************************************************************************)
(* No upsert is in progress on a connection of its own.                    *)
(***************************************************************************)
Writers == {"w1", "w2"}

NoConnection ==
    [pc |-> "idle", kind |-> "none", batch |-> <<>>, records |-> <<>>, view |-> {}]

NoTxn ==
    /\ tx = [w \in Writers |-> NoConnection]
    /\ tx_lock = "none"
    /\ tx_commits = <<>>
    /\ tx_seen = [kind |-> "none", rows |-> {}, during |-> FALSE]
    /\ n_txns = 0

AnyMarket == [fixed |-> FALSE, closed |-> {}]

NoLate ==
    /\ calendar_run = None
    /\ client_req = None
    /\ listing = None
    /\ clean_call = None

\* no component other than the four above is in use
NoOther ==
    /\ resp = None
    /\ closing = None
    /\ clients = None
    /\ limiters = None
    /\ NoLate

NoExt ==
    /\ NoTxn
    /\ market = AnyMarket
    /\ NoOther

(***************************************************************************)
(* No limiter, retry wrapper or provider call exists.                      *)
(***************************************************************************)
Tasks == {"t1", "t2", "t3"}

NoRetry ==
    [pc |-> "none", attempt |-> 0, delay |-> 0, calls |-> <<>>, sleeps |-> <<>>,
     result |-> None]

NoTasks ==
    /\ n_calls = 0
    /\ t_pc = [t \in Tasks |-> "idle"]
    /\ t_retry = [t \in Tasks |-> NoRetry]
    /\ t_due = [t \in Tasks |-> 0]
    /\ gets = <<>>

NoNetwork ==
    /\ now = 0
    /\ rate = 1
    /\ period = 1
    /\ sem_value = 1
    /\ sem_waiters = <<>>
    /\ release_tasks = <<>>
    /\ grants = <<>>
    /\ retry_cfg = [attempts |-> 1, base_delay |-> 1, exceptions |-> {}]
    /\ NoTasks

(***************************************************************************)
(* DailyFetcher                                                            *)
(***************************************************************************)

Priorities == {0, 5, 10}

(***************************************************************************)
(* Python's `x or y` on an optional number: y when x is None or 0.         *)
(* An optional number is <<>> (None) or <<v>>.                             *)
(***************************************************************************)
or_else(x, y) == IF x = <<>> \/ x[1] = 0 THEN y ELSE x[1]

\* max(a, b, c) and min(a, b, c) walk their arguments from the left
Max3(a, b, c) == Max2(Max2(a, b), c)

Min3(a, b, c) == Min2(Min2(a, b), c)

(***************************************************************************)
(* DailyFetcher._clean.  float() leaves a number's value as it is.         *)
(***************************************************************************)
\* result.open = float(result.close)
clean_open_from_close(result) ==
    LET open == result.close
        high == Max3(result.high, open, result.close)
        low == Min3(result.low, open, result.close)
    IN [result EXCEPT !.open = open, !.high = high, !.low = low,
                      !.volume = or_else(result.volume, 0),
                      !.turnover = or_else(result.turnover, 0)]

clean(result) ==
    LET open == or_else(result.open, result.close)
        high == Max3(result.high, open, result.close)
        low == Min3(result.low, open, result.close)
    IN [result EXCEPT !.open = open, !.high = high, !.low = low,
                      !.volume = or_else(result.volume, 0),
                      !.turnover = or_else(result.turnover, 0)]

(***************************************************************************)
(* DailyFetcher.__init__: sorted(providers, key=priority, reverse=True).   *)
(* The sort is stable: of two providers with the same priority the one     *)
(* given first stays first.                                                *)
(***************************************************************************)
tried_before_ascending(p, q) == p.priority <= q.priority

\* a sort that would put the later of two equal priorities first
tried_before_strictly(p, q) == p.priority > q.priority

tried_before(p, q) == p.priority >= q.priority

RECURSIVE insert_provider(_, _)
insert_provider(sorted, p) ==
    IF sorted = <<>> THEN <<p>>
    ELSE IF tried_before(Head(sorted), p)
         THEN <<Head(sorted)>> \o insert_provider(Tail(sorted), p)
         ELSE <<p>> \o sorted

RECURSIVE sorted_providers(_)
sorted_providers(input) ==
    IF input = <<>> THEN <<>>
    ELSE insert_provider(sorted_providers(SubSeq(input, 1, Len(input) - 1)),
                         input[Len(input)])

DailyFetcher_init(priorities) ==
    sorted_providers([i \in DOMAIN priorities |-> [id |-> i, priority |-> priorities[i]]])

(***************************************************************************)
(* What one provider.fetch_daily(symbol, trade_date) call can do: return a *)
(* Bar of its own (raw names the provider), return None, or raise.         *)
(***************************************************************************)
FetchQuotes ==
    {[open |-> <<0>>, high |-> 1, low |-> 2, close |-> 2, volume |-> <<>>, turnover |-> <<0>>],
     [open |-> <<2>>, high |-> 3, low |-> 1, close |-> 1, volume |-> <<4>>, turnover |-> <<5>>],
     [open |-> <<NaN>>, high |-> 3, low |-> 1, close |-> 2, volume |-> <<4>>, turnover |-> <<>>]}

ProviderBar(id, symbol, trade_date, q) ==
    ProviderResult(symbol, trade_date, q.open, q.high, q.low, q.close, q.volume,
                   q.turnover, [source |-> id])

ProviderOutcomes(id, symbol, trade_date, quotes) ==
    {[kind |-> "bar", bar |-> ProviderBar(id, symbol, trade_date, q)] : q \in quotes}
        \cup {[kind |-> "absent"], [kind |-> "raise"]}

(***************************************************************************)
(* DailyFetcher.fetch, one turn of `for provider in self._providers`, on   *)
(* the fetch state st = [pc, idx, result, calls]: the provider at idx is   *)
(* called; an Exception is caught and logged and the loop continues, a     *)
(* falsy result continues, a Bar is cleaned and returned.  With no         *)
(* provider left the loop ends and fetch returns None.                     *)
(***************************************************************************)
fetch_step_uncaught(provs, st, outcome) ==
    IF st.idx > Len(provs)
    THEN [st EXCEPT !.pc = "returned", !.result = None]
    ELSE LET called == [st EXCEPT !.calls = Append(@, [id |-> provs[st.idx].id,
                                                        kind |-> outcome.kind])]
         IN CASE outcome.kind = "raise" -> [called EXCEPT !.pc = "raised"]
              [] outcome.kind = "absent" -> [called EXCEPT !.idx = @ + 1]
              [] outcome.kind = "bar" ->
                    [called EXCEPT !.pc = "returned", !.result = clean(outcome.bar)]

fetch_step(provs, st, outcome) ==
    IF st.idx > Len(provs)
    THEN [st EXCEPT !.pc = "returned", !.result = None]
    ELSE LET called == [st EXCEPT !.calls = Append(@, [id |-> provs[st.idx].id,
                                                        kind |-> outcome.kind])]
         IN CASE outcome.kind = "raise" -> [called EXCEPT !.idx = @ + 1]
              [] outcome.kind = "absent" -> [called EXCEPT !.idx = @ + 1]
              [] outcome.kind = "bar" ->
                    [called EXCEPT !.pc = "returned", !.result = clean(outcome.bar)]

FetchState == [pc |-> f_pc, idx |-> f_idx, result |-> f_result, calls |-> f_calls]

SetFetchState(st) ==
    /\ f_pc' = st.pc
    /\ f_idx' = st.idx
    /\ f_result' = st.result
    /\ f_calls' = st.calls

FetchEntered == [pc |-> "loop", idx |-> 1, result |-> None, calls |-> <<>>]

(***************************************************************************)
(* A caller enters fetch(symbol, trade_date).                              *)
(***************************************************************************)
Fetch ==
    /\ f_pc \in {"idle", "returned"}
    /\ \E s \in Symbols, d \in StoreDates : f_req' = [symbol |-> s, trade_date |-> d]
    /\ SetFetchState(FetchEntered)
    /\ UNCHANGED <<providers, storageVars, schedVars, netVars, extVars>>

(***************************************************************************)
(* The provider at f_idx is called and returns a Bar, returns None, or     *)
(* raises.                                                                 *)
(***************************************************************************)
OutcomesAt(kind) ==
    {o \in ProviderOutcomes(providers[f_idx].id, f_req.symbol, f_req.trade_date,
                            FetchQuotes) : o.kind = kind}

ProviderReturnsBar ==
    /\ f_pc = "loop"
    /\ f_idx <= Len(providers)
    /\ \E o \in OutcomesAt("bar") : SetFetchState(fetch_step(providers, FetchState, o))
    /\ UNCHANGED <<providers, f_req, storageVars, schedVars, netVars, extVars>>

ProviderReturnsNone ==
    /\ f_pc = "loop"
    /\ f_idx <= Len(providers)
    /\ \E o \in OutcomesAt("absent") : SetFetchState(fetch_step(providers, FetchState, o))
    /\ UNCHANGED <<providers, f_req, storageVars, schedVars, netVars, extVars>>

ProviderRaises ==
    /\ f_pc = "loop"
    /\ f_idx <= Len(providers)
    /\ \E o \in OutcomesAt("raise") : SetFetchState(fetch_step(providers, FetchState, o))
    /\ UNCHANGED <<providers, f_req, storageVars, schedVars, netVars, extVars>>

FetchExhausted ==
    /\ f_pc = "loop"
    /\ f_idx > Len(providers)
    /\ SetFetchState(fetch_step(providers, FetchState, [kind |-> "absent"]))
    /\ UNCHANGED <<providers, f_req, storageVars, schedVars, netVars, extVars>>

NoFetcher ==
    /\ providers = <<>>
    /\ f_pc = "idle"
    /\ f_req = None
    /\ f_idx = 1
    /\ f_result = None
    /\ f_calls = <<>>

InitFetcher ==
    /\ NoExt
    /\ InitStorageTables
    /\ NoScheduler
    /\ NoNetwork
    /\ \E priorities \in SeqsUpTo(Priorities, MaxProviders) :
          providers = DailyFetcher_init(priorities)
    /\ f_pc = "idle"
    /\ f_req = None
    /\ f_idx = 1
    /\ f_result = None
    /\ f_calls = <<>>

NextFetcher ==
    \/ Fetch
    \/ ProviderReturnsBar
    \/ ProviderReturnsNone
    \/ ProviderRaises
    \/ FetchExhausted

SpecFetcher == InitFetcher /\ [][NextFetcher]_vars

(***************************************************************************)
(* The history variable's update for a batch that was committed.           *)
(***************************************************************************)
RECURSIVE RecordWritten(_, _)
RecordWritten(w, bars) ==
    IF bars = <<>> THEN w
    ELSE RecordWritten(
            (<<Head(bars).symbol, Head(bars).trade_date>> :> Head(bars)) @@ w,
            Tail(bars))

(***************************************************************************)
(* The Bars the storage specification writes: for each key, Bars that      *)
(* differ in every non-key field but raw.                                  *)
(***************************************************************************)
StoreBars ==
    {ProviderResult(s, d, c, c, c, c, c - 1, c - 1, [source |-> "qq"]) :
        s \in Symbols, d \in StoreDates, c \in 1..MaxPrice}

(***************************************************************************)
(* The batches and candidate date lists the storage specification draws:   *)
(* empty, one element, or two (two Bars of one batch may share a key).     *)
(***************************************************************************)
UpToTwo(S) == {<<>>} \cup {<<x>> : x \in S} \cup {<<x, y>> : x \in S, y \in S}

(***************************************************************************)
(* SQLiteStorage.upsert_daily_bars(bars).  An empty batch returns without  *)
(* I/O.  Otherwise one connection runs executemany inside `with conn:`,    *)
(* which commits on success and rolls back when the statement raises       *)
(* (`failed`): the table is then unchanged and the error propagates.       *)
(***************************************************************************)
upsert_daily_bars(bars, failed) ==
    LET records == [i \in DOMAIN bars |-> daily_bar_record(bars[i])]
    IN IF records = <<>>
       THEN /\ UNCHANGED <<daily_bars, written>>
            /\ last_call' = [op |-> "upsert_daily_bars", io |-> FALSE, raised |-> FALSE,
                             replaced |-> FALSE]
       ELSE IF failed
       THEN /\ UNCHANGED <<daily_bars, written>>
            /\ last_call' = [op |-> "upsert_daily_bars", io |-> TRUE, raised |-> TRUE,
                             replaced |-> FALSE]
       ELSE /\ daily_bars' = executemany(daily_bars, records)
            /\ written' = RecordWritten(written, bars)
            /\ last_call' = [op |-> "upsert_daily_bars", io |-> TRUE, raised |-> FALSE,
                             replaced |-> \E r \in daily_bars : r \notin daily_bars']

UpsertDailyBars ==
    /\ \E bars \in UpToTwo(StoreBars) : upsert_daily_bars(bars, FALSE)
    /\ UNCHANGED <<securities, adjustment_factors, fetcherVars, schedVars, netVars, extVars>>

UpsertDailyBarsRaises ==
    /\ \E b \in StoreBars : upsert_daily_bars(<<b>>, TRUE)
    /\ UNCHANGED <<securities, adjustment_factors, fetcherVars, schedVars, netVars, extVars>>

(***************************************************************************)
(* A caller's missing_daily_dates(symbol, dates) query.                    *)
(***************************************************************************)
MissingDailyDates ==
    /\ \E s \in Symbols, dates \in UpToTwo(StoreDates) :
          last_call' = [op |-> "missing_daily_dates", symbol |-> s, dates |-> dates,
                        result |-> missing_daily_dates(daily_bars, s, dates)]
    /\ UNCHANGED <<securities, daily_bars, adjustment_factors, written, fetcherVars,
                   schedVars, netVars, extVars>>

InitStorage ==
    /\ NoExt
    /\ InitStorageTables
    /\ NoFetcher
    /\ NoScheduler
    /\ NoNetwork

NextStorage ==
    \/ UpsertDailyBars
    \/ UpsertDailyBarsRaises
    \/ MissingDailyDates

SpecStorage == InitStorage /\ [][NextStorage]_vars

(***************************************************************************)
(* SQLiteStorage.upsert_securities and list_tracked_symbols.               *)
(* An optional date is <<>> (None) or <<d>>.                               *)
(***************************************************************************)
Security(symbol, name, asset_type, listed_date, delisted_date) ==
    [symbol |-> symbol, name |-> name, asset_type |-> asset_type,
     listed_date |-> listed_date, delisted_date |-> delisted_date]

security_record(security) ==
    [symbol |-> security.symbol, name |-> security.name,
     asset_type |-> security.asset_type,
     listed_date |-> IF security.listed_date = <<>> THEN <<>>
                     ELSE <<isoformat(security.listed_date[1])>>,
     delisted_date |-> IF security.delisted_date = <<>> THEN <<>>
                       ELSE <<isoformat(security.delisted_date[1])>>]

insert_security_on_conflict_update(table, rec) ==
    {r \in table : r.symbol # rec.symbol} \cup {rec}

RECURSIVE executemany_securities(_, _)
executemany_securities(table, records) ==
    IF records = <<>> THEN table
    ELSE executemany_securities(
            insert_security_on_conflict_update(table, Head(records)), Tail(records))

upsert_securities(batch, failed) ==
    LET records == [i \in DOMAIN batch |-> security_record(batch[i])]
    IN IF records = <<>> \/ failed
       THEN UNCHANGED securities
       ELSE securities' = executemany_securities(securities, records)

\* SELECT symbol FROM securities ORDER BY symbol
SymbolOrder == <<"000001", "600000">>

list_tracked_symbols_sync(table) ==
    SelectSeq(SymbolOrder, LAMBDA x : \E r \in table : r.symbol = x)

(***************************************************************************)
(* scheduler/initializer.py: the trading calendar.  With ASHARE_CALENDAR   *)
(* unset, settings.calendar_path is None and the calendar is the weekdays  *)
(* of [start, end].                                                        *)
(***************************************************************************)
RECURSIVE calendar_from_weekdays(_, _)
calendar_from_weekdays(start, end) ==
    IF start > end THEN <<>>
    ELSE (IF weekday(start) < 5 THEN <<start>> ELSE <<>>)
            \o calendar_from_weekdays(start + 1, end)

\* one line of the calendar file: blank, a text strptime refuses, or a date
CalendarLines ==
    {[t |-> "blank"], [t |-> "text"]} \cup {[t |-> "date", d |-> d] : d \in 1..MaxDay}

\* _calendar_from_file: the dates of the file within [start, end], line by line
RECURSIVE calendar_from_file(_, _, _)
calendar_from_file(lines, start, end) ==
    IF lines = <<>> THEN <<>>
    ELSE LET line == Head(lines)
         IN (IF line.t = "date" /\ start <= line.d /\ line.d <= end
             THEN <<line.d>> ELSE <<>>)
                \o calendar_from_file(Tail(lines), start, end)

\* calendar_file: [lines] of the file at settings.calendar_path, or None when
\* no path is set or no file is there
load_trading_calendar(calendar_file, start, end) ==
    IF calendar_file # None
    THEN calendar_from_file(calendar_file.lines, start, end)
    ELSE calendar_from_weekdays(start, end)

(***************************************************************************)
(* DailyFetcher.fetch as one call: the loop run to its end, provider i     *)
(* answering outs[i].                                                      *)
(***************************************************************************)
RECURSIVE fetch_loop(_, _, _)
fetch_loop(provs, st, outs) ==
    IF st.pc # "loop" THEN st
    ELSE fetch_loop(provs,
                    fetch_step(provs, st,
                               IF st.idx <= Len(provs) THEN outs[st.idx]
                               ELSE [kind |-> "absent"]),
                    outs)

DailyFetcher_fetch(provs, outs) == fetch_loop(provs, FetchEntered, outs)

(***************************************************************************)
(* The schedulers' fetcher holds two providers; both sources serve the     *)
(* same market data, so a Bar of (symbol, date) is the same from either.   *)
(***************************************************************************)
SchedulerPriorities == <<5, 10>>

MarketBar(symbol, d) ==
    ProviderResult(symbol, d, <<d>>, d + 1, d, d, <<d>>, <<>>, [klines |-> d])

SchedOutcome(kind, symbol, d) ==
    IF kind = "bar" THEN [kind |-> "bar", bar |-> MarketBar(symbol, d)]
    ELSE [kind |-> kind]

\* the ways `await fetcher.fetch(symbol, d)` can end
SourceAnswers(d) ==
    IF market.fixed
    THEN {[i \in 1..Len(providers) |-> IF d \in market.closed THEN "absent" ELSE "bar"]}
    ELSE [1..Len(providers) -> {"bar", "absent", "raise"}]

SchedFetches(symbol, d) ==
    {DailyFetcher_fetch(providers,
                        [i \in 1..Len(providers) |-> SchedOutcome(k[i], symbol, d)]) :
        k \in SourceAnswers(d)}

Event(call, symbol, trade_date, raised, bars) ==
    [call |-> call, symbol |-> symbol, trade_date |-> trade_date, raised |-> raised,
     bars |-> bars]

StorageCalls == {"upsert_daily_bars", "missing_daily_dates", "list_tracked_symbols"}

\* the run ends with the exception of its last call
Abort(event) ==
    /\ s_pc' = "aborted"
    /\ s_events' = Append(s_events, event)

Stopped == s_pc \in {"idle", "done", "aborted"}

(***************************************************************************)
(* The universe feed stores securities between runs.                       *)
(***************************************************************************)
UpsertSecurities ==
    /\ Stopped
    /\ s_mode # "initial"
    /\ \E batch \in SeqsUpTo({Security(x, "name", "stock", <<>>, <<>>) : x \in Symbols},
                            MaxSymbols) :
          upsert_securities(batch, FALSE)
    /\ UNCHANGED <<daily_bars, adjustment_factors, last_call, written, fetcherVars,
                   schedVars, netVars, extVars>>

(***************************************************************************)
(* run_daily_update(storage, fetcher, today, symbols)                      *)
(***************************************************************************)
\* result[symbol] = bool(missing)
always_fetch(missing) == TRUE

should_fetch(missing) == missing # <<>>

\* dict assignment: a key keeps the place of its first insertion
dict_set(d, key, value) ==
    IF \E i \in DOMAIN d : d[i].key = key
    THEN [i \in DOMAIN d |-> IF d[i].key = key THEN [key |-> key, value |-> value]
                             ELSE d[i]]
    ELSE Append(d, [key |-> key, value |-> value])

HasBar(symbol, d) ==
    \E r \in daily_bars : r.symbol = symbol /\ r.trade_date = isoformat(d)

\* if not symbols
symbols_is_empty(symbols_arg) == symbols_arg = None \/ symbols_arg.list = <<>>

\* if symbols is None
symbols_is_None(symbols_arg) == symbols_arg = None

DU_Enter(symbols_arg, symbol_set) ==
    /\ s_mode' = "daily"
    /\ s_prev' = s_pc
    /\ s_symbols_arg' = symbols_arg
    /\ s_pc' = IF symbols_is_None(symbols_arg) THEN "du_list" ELSE "du_missing"
    /\ s_symbols' = IF symbols_arg = None THEN <<>> ELSE symbols_arg.list
    /\ s_i' = 1
    /\ s_missing_map' = <<>>
    /\ s_bar' = None
    /\ s_events' = <<>>
    /\ s_missing_at_start' = {x \in symbol_set : ~HasBar(x, today)}
    /\ UNCHANGED <<today, s_calendar, s_j, s_bars, storageVars, fetcherVars, netVars, extVars>>

\* called with an explicit symbol list
DU_Start ==
    /\ Stopped
    /\ s_mode # "initial"
    /\ \E symbols \in SeqsUpTo(Symbols, MaxSymbols) :
          DU_Enter([list |-> symbols], Range(symbols))

\* called with symbols=None
DU_StartTracked ==
    /\ Stopped
    /\ s_mode # "initial"
    /\ DU_Enter(None, {r.symbol : r \in securities})

\* symbols = await storage.list_tracked_symbols()
DU_ListTracked ==
    /\ s_pc = "du_list"
    /\ \E failed \in BOOLEAN :
          IF failed
          THEN /\ Abort(Event("list_tracked_symbols", "", today, TRUE, <<>>))
               /\ UNCHANGED s_symbols
          ELSE /\ s_symbols' = list_tracked_symbols_sync(securities)
               /\ s_pc' = "du_missing"
               /\ s_events' = Append(s_events,
                                     Event("list_tracked_symbols", "", today, FALSE, <<>>))
    /\ UNCHANGED <<today, s_mode, s_calendar, s_i, s_j, s_bars, s_missing_map, s_bar,
                   s_missing_at_start, s_prev, s_symbols_arg, storageVars, fetcherVars, netVars, extVars>>

\* _compute_missing, one turn of its loop
DU_ComputeMissing ==
    /\ s_pc = "du_missing"
    /\ s_i <= Len(s_symbols)
    /\ LET symbol == s_symbols[s_i]
           missing == missing_daily_dates(daily_bars, symbol, <<today>>)
       IN \E failed \in BOOLEAN :
             IF failed
             THEN /\ Abort(Event("missing_daily_dates", symbol, today, TRUE, <<>>))
                  /\ UNCHANGED <<s_missing_map, s_i>>
             ELSE /\ s_missing_map' = dict_set(s_missing_map, symbol, should_fetch(missing))
                  /\ s_i' = s_i + 1
                  /\ s_events' = Append(s_events,
                                    Event("missing_daily_dates", symbol, today, FALSE, <<>>))
                  /\ UNCHANGED s_pc
    /\ UNCHANGED <<today, s_mode, s_symbols, s_calendar, s_j, s_bars, s_bar,
                   s_missing_at_start, s_prev, s_symbols_arg, storageVars, fetcherVars, netVars, extVars>>

\* _compute_missing returns; `for symbol, should_fetch in missing_map.items()`
DU_MissingComputed ==
    /\ s_pc = "du_missing"
    /\ s_i > Len(s_symbols)
    /\ s_pc' = "du_loop"
    /\ s_i' = 1
    /\ UNCHANGED <<today, s_mode, s_symbols, s_calendar, s_j, s_bars, s_missing_map,
                   s_bar, s_events, s_missing_at_start, s_prev, s_symbols_arg, storageVars, fetcherVars, netVars, extVars>>

\* if not should_fetch: continue
DU_Skip ==
    /\ s_pc = "du_loop"
    /\ s_i <= Len(s_missing_map)
    /\ ~s_missing_map[s_i].value
    /\ s_i' = s_i + 1
    /\ UNCHANGED <<today, s_pc, s_mode, s_symbols, s_calendar, s_j, s_bars,
                   s_missing_map, s_bar, s_events, s_missing_at_start, s_prev, s_symbols_arg,
                   storageVars, fetcherVars, netVars, extVars>>

\* bar = await fetcher.fetch(symbol, trade_date)
DU_Fetch ==
    /\ s_pc = "du_loop"
    /\ s_i <= Len(s_missing_map)
    /\ s_missing_map[s_i].value
    /\ LET symbol == s_missing_map[s_i].key
       IN \E f \in SchedFetches(symbol, today) :
             IF f.pc = "raised"
             THEN /\ Abort(Event("fetch", symbol, today, TRUE, <<>>))
                  /\ UNCHANGED <<s_i, s_bar>>
             ELSE IF f.result # None
             THEN /\ s_bar' = f.result
                  /\ s_pc' = "du_upsert"
                  /\ s_events' = Append(s_events,
                                        Event("fetch", symbol, today, FALSE, <<f.result>>))
                  /\ UNCHANGED s_i
             ELSE /\ s_i' = s_i + 1
                  /\ s_events' = Append(s_events, Event("fetch", symbol, today, FALSE, <<>>))
                  /\ UNCHANGED <<s_pc, s_bar>>
    /\ UNCHANGED <<today, s_mode, s_symbols, s_calendar, s_j, s_bars, s_missing_map,
                   s_missing_at_start, s_prev, s_symbols_arg, storageVars, fetcherVars, netVars, extVars>>

\* await storage.upsert_daily_bars([bar])
DU_Upsert ==
    /\ s_pc = "du_upsert"
    /\ \E failed \in BOOLEAN :
          /\ upsert_daily_bars(<<s_bar>>, failed)
          /\ IF failed
             THEN /\ Abort(Event("upsert_daily_bars", s_bar.symbol, today, TRUE, <<s_bar>>))
                  /\ UNCHANGED <<s_i, s_bar>>
             ELSE /\ s_pc' = "du_loop"
                  /\ s_i' = s_i + 1
                  /\ s_bar' = None
                  /\ s_events' = Append(s_events,
                        Event("upsert_daily_bars", s_bar.symbol, today, FALSE, <<s_bar>>))
    /\ UNCHANGED <<today, s_mode, s_symbols, s_calendar, s_j, s_bars, s_missing_map,
                   s_missing_at_start, s_prev, s_symbols_arg, securities, adjustment_factors,
                   fetcherVars, netVars, extVars>>

DU_Done ==
    /\ s_pc = "du_loop"
    /\ s_i > Len(s_missing_map)
    /\ s_pc' = "done"
    /\ UNCHANGED <<today, s_mode, s_symbols, s_calendar, s_i, s_j, s_bars, s_missing_map,
                   s_bar, s_events, s_missing_at_start, s_prev, s_symbols_arg, storageVars, fetcherVars, netVars, extVars>>

(***************************************************************************)
(* run_initial_load(storage, fetcher, symbols, start, end), on a new       *)
(* database, loading the history up to end = today.                        *)
(***************************************************************************)
\* if result: bars.append(result)
accumulate_last_only(bars, result) == IF result # None THEN <<result>> ELSE bars

accumulate(bars, result) == IF result # None THEN Append(bars, result) ELSE bars

IL_Start ==
    /\ s_pc = "idle"
    /\ s_mode = "none"
    /\ \E symbols \in SeqsUpTo(Symbols, MaxSymbols), start \in 1..MaxDay :
          /\ s_symbols' = symbols
          /\ s_calendar' = load_trading_calendar(None, start, today)
    /\ s_mode' = "initial"
    /\ s_prev' = s_pc
    /\ s_pc' = "il_walk"
    /\ s_i' = 1
    /\ s_j' = 1
    /\ s_bars' = <<>>
    /\ s_events' = <<>>
    /\ UNCHANGED <<today, s_missing_map, s_bar, s_missing_at_start, s_symbols_arg,
                   storageVars, fetcherVars, netVars, extVars>>

\* result = await fetcher.fetch(symbol, trade_date)
IL_Fetch ==
    /\ s_pc = "il_walk"
    /\ s_i <= Len(s_symbols)
    /\ s_j <= Len(s_calendar)
    /\ LET symbol == s_symbols[s_i]
           trade_date == s_calendar[s_j]
       IN \E f \in SchedFetches(symbol, trade_date) :
             IF f.pc = "raised"
             THEN /\ Abort(Event("fetch", symbol, trade_date, TRUE, <<>>))
                  /\ UNCHANGED <<s_j, s_bars>>
             ELSE /\ s_bars' = accumulate(s_bars, f.result)
                  /\ s_j' = s_j + 1
                  /\ s_events' = Append(s_events,
                        Event("fetch", symbol, trade_date, FALSE,
                              IF f.result # None THEN <<f.result>> ELSE <<>>))
                  /\ UNCHANGED s_pc
    /\ UNCHANGED <<today, s_mode, s_symbols, s_calendar, s_i, s_missing_map, s_bar,
                   s_missing_at_start, s_prev, s_symbols_arg, storageVars, fetcherVars, netVars, extVars>>

\* if bars: await storage.upsert_daily_bars(bars)
IL_Upsert ==
    /\ s_pc = "il_walk"
    /\ s_i <= Len(s_symbols)
    /\ s_j > Len(s_calendar)
    /\ s_bars # <<>>
    /\ \E failed \in BOOLEAN :
          /\ upsert_daily_bars(s_bars, failed)
          /\ IF failed
             THEN Abort(Event("upsert_daily_bars", s_symbols[s_i], 0, TRUE, s_bars))
             ELSE /\ s_pc' = "il_stored"
                  /\ s_events' = Append(s_events,
                        Event("upsert_daily_bars", s_symbols[s_i], 0, FALSE, s_bars))
    /\ UNCHANGED <<today, s_mode, s_symbols, s_calendar, s_i, s_j, s_bars, s_missing_map,
                   s_bar, s_missing_at_start, s_prev, s_symbols_arg, securities, adjustment_factors,
                   fetcherVars, netVars, extVars>>

\* the next turn of `for symbol in symbols`: bars = []
IL_NextSymbol ==
    /\ \/ s_pc = "il_stored"
       \/ /\ s_pc = "il_walk"
          /\ s_i <= Len(s_symbols)
          /\ s_j > Len(s_calendar)
          /\ s_bars = <<>>
    /\ s_pc' = "il_walk"
    /\ s_i' = s_i + 1
    /\ s_j' = 1
    /\ s_bars' = <<>>
    /\ s_events' = <<>>
    /\ UNCHANGED <<today, s_mode, s_symbols, s_calendar, s_missing_map, s_bar,
                   s_missing_at_start, s_prev, s_symbols_arg, storageVars, fetcherVars, netVars, extVars>>

IL_Done ==
    /\ s_pc = "il_walk"
    /\ s_i > Len(s_symbols)
    /\ s_pc' = "done"
    /\ UNCHANGED <<today, s_mode, s_symbols, s_calendar, s_i, s_j, s_bars, s_missing_map,
                   s_bar, s_events, s_missing_at_start, s_prev, s_symbols_arg, storageVars, fetcherVars, netVars, extVars>>

(***************************************************************************)
(* The scheduler specification: on a new database, one initial load, or    *)
(* any number of daily updates for the trade date `today`, one after the   *)
(* other, with the securities table filled between them.                   *)
(***************************************************************************)
SchedulerStart ==
    /\ InitStorageTables
    /\ providers = DailyFetcher_init(SchedulerPriorities)
    /\ f_pc = "idle"
    /\ f_req = None
    /\ f_idx = 1
    /\ f_result = None
    /\ f_calls = <<>>
    /\ today \in 1..MaxDay
    /\ s_pc = "idle"
    /\ s_mode = "none"
    /\ s_symbols = <<>>
    /\ s_calendar = <<>>
    /\ s_i = 1
    /\ s_j = 1
    /\ s_bars = <<>>
    /\ s_missing_map = <<>>
    /\ s_bar = None
    /\ s_events = <<>>
    /\ s_missing_at_start = {}
    /\ s_prev = "none"
    /\ s_symbols_arg = None
    /\ NoNetwork

InitScheduler ==
    /\ NoExt
    /\ SchedulerStart

NextScheduler ==
    \/ UpsertSecurities
    \/ DU_Start
    \/ DU_StartTracked
    \/ DU_ListTracked
    \/ DU_ComputeMissing
    \/ DU_MissingComputed
    \/ DU_Skip
    \/ DU_Fetch
    \/ DU_Upsert
    \/ DU_Done
    \/ IL_Start
    \/ IL_Fetch
    \/ IL_Upsert
    \/ IL_NextSymbol
    \/ IL_Done

SpecScheduler == InitScheduler /\ [][NextScheduler]_vars

(***************************************************************************)
(* utils/rate_limiter.py: AsyncRateLimiter.                                *)
(*                                                                         *)
(* asyncio.Semaphore (Python 3.11 and later): acquire() takes a permit at  *)
(* once when the semaphore is not locked, and otherwise appends a future   *)
(* and waits for it; release() adds a permit and hands it to the oldest    *)
(* waiting future.  asyncio.sleep(d) ends at now + d.                     *)
(***************************************************************************)
locked(value, waiters) == value = 0 \/ waiters # <<>>

\* Semaphore._wake_up_next
wake_up_next(sem) ==
    LET waiting == {i \in DOMAIN sem.waiters : ~sem.waiters[i].done}
    IN IF waiting = {} THEN [value |-> sem.value, waiters |-> sem.waiters, woke |-> FALSE]
       ELSE LET i == CHOOSE j \in waiting : \A k \in waiting : j <= k
            IN [value |-> sem.value - 1,
                waiters |-> [sem.waiters EXCEPT ![i].done = TRUE],
                woke |-> TRUE]

\* a release that returns no permit
release_nothing(sem) == [value |-> sem.value, waiters |-> sem.waiters, woke |-> FALSE]

\* Semaphore.release
release(sem) ==
    wake_up_next([value |-> sem.value + 1, waiters |-> sem.waiters, woke |-> FALSE])

\* the end of Semaphore.acquire: `while self._value > 0: if not self._wake_up_next(): break`
RECURSIVE wake_while(_)
wake_while(sem) ==
    IF sem.value > 0
    THEN LET next == wake_up_next(sem)
         IN IF next.woke THEN wake_while(next) ELSE sem
    ELSE sem

Semaphore == [value |-> sem_value, waiters |-> sem_waiters, woke |-> FALSE]

\* _delayed_release: await asyncio.sleep(self._period)
release_at_once(granted, per) == granted

release_due(granted, per) == granted + per

\* asyncio.create_task(self._delayed_release()), as acquire() returns
CreateReleaseTask ==
    /\ release_tasks' = Append(release_tasks,
                               [granted |-> now, due |-> release_due(now, period)])
    /\ grants' = Append(grants, now)

\* AsyncRateLimiter.acquire, up to its return or its suspension
LimiterAcquire(t, granted) ==
    /\ granted = ~locked(sem_value, sem_waiters)
    /\ IF granted
       THEN /\ sem_value' = sem_value - 1
            /\ UNCHANGED sem_waiters
            /\ CreateReleaseTask
       ELSE /\ sem_waiters' = Append(sem_waiters, [task |-> t, done |-> FALSE])
            /\ UNCHANGED <<sem_value, release_tasks, grants>>

Woken(t) == \E i \in DOMAIN sem_waiters : sem_waiters[i].task = t /\ sem_waiters[i].done

\* AsyncRateLimiter.acquire, from the wake-up of its future to its return
LimiterResume(t) ==
    /\ Woken(t)
    /\ LET rest == SelectSeq(sem_waiters, LAMBDA w : w.task # t)
           sem == wake_while([value |-> sem_value, waiters |-> rest, woke |-> FALSE])
       IN /\ sem_value' = sem.value
          /\ sem_waiters' = sem.waiters
    /\ CreateReleaseTask

\* _delayed_release wakes from its sleep: self._semaphore.release()
DelayedRelease ==
    /\ release_tasks # <<>>
    /\ Head(release_tasks).due <= now
    /\ LET sem == release(Semaphore)
       IN /\ sem_value' = sem.value
          /\ sem_waiters' = sem.waiters
    /\ release_tasks' = Tail(release_tasks)
    /\ UNCHANGED <<now, rate, period, grants, n_calls, t_pc, retry_cfg, t_retry, t_due,
                   gets, storageVars, fetcherVars, schedVars, extVars>>

\* something is ready to run at this time: a release that is due, a caller
\* whose future is done, a request about to be sent, a sleep that is over
Ready ==
    \/ release_tasks # <<>> /\ Head(release_tasks).due <= now
    \/ \E i \in DOMAIN sem_waiters : sem_waiters[i].done
    \/ \E t \in DOMAIN t_retry :
          \/ t_retry[t].pc = "call"
          \/ t_retry[t].pc = "sleep" /\ t_due[t] <= now

\* the clock moves on when the event loop has run all that was ready
Tick ==
    /\ ~Ready
    /\ now < MaxTime
    /\ now' = now + 1
    /\ UNCHANGED <<rate, period, sem_value, sem_waiters, release_tasks, grants, n_calls,
                   t_pc, retry_cfg, t_retry, t_due, gets, storageVars, fetcherVars,
                   schedVars, extVars>>

\* AsyncRateLimiter(rate=r, per=p); a rate or per that is not positive is refused
AsyncRateLimiter_init(r, p) ==
    /\ r > 0
    /\ p > 0
    /\ rate = r
    /\ period = p
    /\ sem_value = r
    /\ sem_waiters = <<>>
    /\ release_tasks = <<>>
    /\ grants = <<>>

(***************************************************************************)
(* Tasks that call limiter.acquire() concurrently.                         *)
(***************************************************************************)
L_Acquire ==
    /\ n_calls < MaxCalls
    /\ n_calls' = n_calls + 1
    /\ \E t \in Tasks, granted \in BOOLEAN :
          /\ t_pc[t] = "idle"
          /\ LimiterAcquire(t, granted)
          /\ t_pc' = [t_pc EXCEPT ![t] = IF granted THEN "idle" ELSE "waiting"]
    /\ UNCHANGED <<now, rate, period, retry_cfg, t_retry, t_due, gets, storageVars,
                   fetcherVars, schedVars, extVars>>

L_Resume ==
    /\ \E t \in Tasks :
          /\ t_pc[t] = "waiting"
          /\ LimiterResume(t)
          /\ t_pc' = [t_pc EXCEPT ![t] = "idle"]
    /\ UNCHANGED <<now, rate, period, n_calls, retry_cfg, t_retry, t_due, gets,
                   storageVars, fetcherVars, schedVars, extVars>>

InitLimiter ==
    /\ NoExt
    /\ InitStorageTables
    /\ NoFetcher
    /\ NoScheduler
    /\ now = 0
    /\ \E r \in 1..MaxRate, p \in 1..MaxPer : AsyncRateLimiter_init(r, p)
    /\ retry_cfg = [attempts |-> 1, base_delay |-> 1, exceptions |-> {}]
    /\ NoTasks

NextLimiter ==
    \/ L_Acquire
    \/ L_Resume
    \/ DelayedRelease
    \/ Tick

SpecLimiter == InitLimiter /\ [][NextLimiter]_vars

(***************************************************************************)
(* C7: the permits out (granted and not yet returned, or handed to a       *)
(* waiting caller) and the permits in the pool are `rate` in all; a permit *)
(* is due back `per` after its grant and is not back before; rate + 1      *)
(* acquisitions never complete within less than `per`; a caller is         *)
(* suspended only while no permit is in the pool or a caller woken before  *)
(* it has yet to pass the permit on.                                       *)
(***************************************************************************)
HandedOver == {i \in DOMAIN sem_waiters : sem_waiters[i].done}

C7_PermitsBoundedPerWindow ==
    /\ sem_value >= 0
    /\ Len(release_tasks) + Cardinality(HandedOver) <= rate
    /\ sem_value + Len(release_tasks) + Cardinality(HandedOver) = rate
    /\ \A i \in DOMAIN release_tasks :
          /\ release_tasks[i].due = release_tasks[i].granted + period
          /\ release_tasks[i].granted <= now
          /\ now <= release_tasks[i].due
    /\ \A i \in DOMAIN grants :
          (i + rate) \in DOMAIN grants => grants[i + rate] >= grants[i] + period
    /\ \A i \in DOMAIN sem_waiters :
          ~sem_waiters[i].done => sem_value = 0 \/ HandedOver # {}

\* rate 2: two callers pass at time 0, the third at time `per`, and a fourth waits
C7_Witness ==
    /\ rate = 2
    /\ period = 2
    /\ grants = <<0, 0, 2>>
    /\ \E t \in Tasks : t_pc[t] = "waiting" /\ ~Woken(t)

(***************************************************************************)
(* utils/rate_limiter.py: async_retry.  The wrapper's locals are           *)
(* [pc, attempt, delay, result] with the history of the calls of the       *)
(* wrapped function and of the sleeps.  An exception is [exc, attempt]:    *)
(* its type and the attempt that raised it.                                *)
(***************************************************************************)
\* exceptions=(Exception,): what httpx raises is an Exception, a cancellation is not
ExceptionTypes == {"ConnectError", "HTTPStatusError"}

RaisedTypes == ExceptionTypes \cup {"CancelledError"}

Exc(type, attempt) == [exc |-> type, attempt |-> attempt]

RuntimeError == Exc("RuntimeError", 0)

Returns(value) == [kind |-> "return", value |-> value]

Raises(type) == [kind |-> "raise", exc |-> type]

\* delay = base_delay; for attempt in range(1, attempts + 1)
wrapper_enter(cfg) ==
    IF cfg.attempts < 1
    THEN [pc |-> "raised", attempt |-> 0, delay |-> cfg.base_delay, calls |-> <<>>,
          sleeps |-> <<>>, result |-> RuntimeError]
    ELSE [pc |-> "call", attempt |-> 1, delay |-> cfg.base_delay, calls |-> <<>>,
          sleeps |-> <<>>, result |-> None]

\* delay *= 2
next_delay_same(delay) == delay

next_delay(delay) == delay * 2

\* except BaseException: every exception is retried
retry_after_call_any(cfg, st, outcome) ==
    LET calls == Append(st.calls, outcome)
    IN IF outcome.kind = "return"
       THEN [st EXCEPT !.pc = "returned", !.calls = calls, !.result = outcome]
       ELSE IF st.attempt = cfg.attempts
       THEN [st EXCEPT !.pc = "raised", !.calls = calls,
                       !.result = Exc(outcome.exc, st.attempt)]
       ELSE [st EXCEPT !.pc = "sleep", !.calls = calls,
                       !.sleeps = Append(st.sleeps, st.delay)]

\* try: return await func(*args, **kwargs) / except exceptions: ...
retry_after_call(cfg, st, outcome) ==
    LET calls == Append(st.calls, outcome)
    IN IF outcome.kind = "return"
       THEN [st EXCEPT !.pc = "returned", !.calls = calls, !.result = outcome]
       ELSE IF outcome.exc \notin cfg.exceptions \/ st.attempt = cfg.attempts
       THEN [st EXCEPT !.pc = "raised", !.calls = calls,
                       !.result = Exc(outcome.exc, st.attempt)]
       ELSE [st EXCEPT !.pc = "sleep", !.calls = calls,
                       !.sleeps = Append(st.sleeps, st.delay)]

\* asyncio.sleep(delay) is over: delay *= 2 and the next turn of the loop
retry_after_sleep(cfg, st) ==
    IF st.attempt + 1 > cfg.attempts
    THEN [st EXCEPT !.pc = "raised", !.result = RuntimeError]
    ELSE [st EXCEPT !.pc = "call", !.attempt = st.attempt + 1,
                    !.delay = next_delay(st.delay)]

Finished(st) == st.pc \in {"returned", "raised"}

(***************************************************************************)
(* A task that calls a function wrapped by async_retry.                    *)
(***************************************************************************)
R_Call ==
    /\ t_pc["t1"] = "idle"
    /\ n_calls < MaxCalls
    /\ n_calls' = n_calls + 1
    /\ LET st == wrapper_enter(retry_cfg)
       IN /\ t_retry' = [t_retry EXCEPT !["t1"] = st]
          /\ t_pc' = [t_pc EXCEPT !["t1"] = IF Finished(st) THEN "idle" ELSE "retrying"]
    /\ UNCHANGED <<now, rate, period, sem_value, sem_waiters, release_tasks, grants,
                   retry_cfg, t_due, gets, storageVars, fetcherVars, schedVars, extVars>>

R_Attempt ==
    /\ t_pc["t1"] = "retrying"
    /\ t_retry["t1"].pc = "call"
    /\ \E outcome \in {Returns("payload")} \cup {Raises(e) : e \in RaisedTypes} :
          LET st == retry_after_call(retry_cfg, t_retry["t1"], outcome)
          IN /\ t_retry' = [t_retry EXCEPT !["t1"] = st]
             /\ t_pc' = [t_pc EXCEPT !["t1"] = IF Finished(st) THEN "idle" ELSE "retrying"]
    /\ UNCHANGED <<now, rate, period, sem_value, sem_waiters, release_tasks, grants,
                   n_calls, retry_cfg, t_due, gets, storageVars, fetcherVars, schedVars, extVars>>

R_SleepElapses ==
    /\ t_pc["t1"] = "retrying"
    /\ t_retry["t1"].pc = "sleep"
    /\ LET st == retry_after_sleep(retry_cfg, t_retry["t1"])
       IN /\ t_retry' = [t_retry EXCEPT !["t1"] = st]
          /\ t_pc' = [t_pc EXCEPT !["t1"] = IF Finished(st) THEN "idle" ELSE "retrying"]
    /\ UNCHANGED <<now, rate, period, sem_value, sem_waiters, release_tasks, grants,
                   n_calls, retry_cfg, t_due, gets, storageVars, fetcherVars, schedVars, extVars>>

RetryConfigs ==
    [attempts : 0..MaxAttempts, base_delay : 1..MaxBaseDelay, exceptions : {ExceptionTypes}]

InitRetry ==
    /\ NoExt
    /\ InitStorageTables
    /\ NoFetcher
    /\ NoScheduler
    /\ now = 0
    /\ AsyncRateLimiter_init(1, 1)
    /\ retry_cfg \in RetryConfigs
    /\ NoTasks

NextRetry ==
    \/ R_Call
    \/ R_Attempt
    \/ R_SleepElapses

SpecRetry == InitRetry /\ [][NextRetry]_vars

(***************************************************************************)
(* C9: with attempts = N >= 1 and base_delay = b, while every call of the  *)
(* wrapped function has failed with an exception of the configured set:    *)
(* the function is called at most N times, the k-th sleep lasts            *)
(* b * 2^(k-1), there are at most N - 1 sleeps, and the wrapper ends       *)
(* exactly when the N-th call has failed, by raising that call's           *)
(* exception.                                                              *)
(***************************************************************************)
C9_RetryBackoffThenRaise ==
    LET st == t_retry["t1"]
        N == retry_cfg.attempts
        b == retry_cfg.base_delay
        AlwaysFailed == \A i \in DOMAIN st.calls :
                           /\ st.calls[i].kind = "raise"
                           /\ st.calls[i].exc \in retry_cfg.exceptions
    IN (st.pc # "none" /\ N >= 1 /\ AlwaysFailed) =>
          /\ Len(st.calls) <= N
          /\ Len(st.sleeps) <= N - 1
          /\ \A k \in DOMAIN st.sleeps : st.sleeps[k] = b * 2^(k - 1)
          /\ st.pc = "call" => Len(st.sleeps) = Len(st.calls) /\ st.attempt = Len(st.calls) + 1
          /\ st.pc = "sleep" => Len(st.sleeps) = Len(st.calls) /\ st.attempt = Len(st.calls)
          /\ st.pc # "returned"
          /\ st.pc = "raised" <=> Len(st.calls) = N
          /\ st.pc = "raised" =>
                /\ Len(st.sleeps) = N - 1
                /\ st.result = Exc(st.calls[N].exc, N)

\* attempts=3, base_delay=1: three failed calls, sleeps of 1 then 2, the third
\* call's exception raised
C9_Witness ==
    LET st == t_retry["t1"]
    IN /\ retry_cfg.attempts = 3
       /\ retry_cfg.base_delay = 1
       /\ st.pc = "raised"
       /\ Len(st.calls) = 3
       /\ st.sleeps = <<1, 2>>
       /\ st.calls[1].exc = "ConnectError"
       /\ st.calls[3].exc = "HTTPStatusError"
       /\ st.result = Exc("HTTPStatusError", 3)

(***************************************************************************)
(* providers/eastmoney.py, providers/qq.py: fetch_daily, called by two     *)
(* tasks on one provider.  fetch_daily awaits _apply_rate_limit() and then *)
(* the retry wrapper of _request_daily; each call of _request_daily issues *)
(* one HTTP GET.  The unit of time is settings.retry_base_delay.           *)
(***************************************************************************)
ProviderTasks == {"t1", "t2"}

\* request = self._with_retry(self._request_daily), entered as acquire() returns
EnterRequest(t) ==
    LET st == wrapper_enter(retry_cfg)
    IN /\ t_retry' = [t_retry EXCEPT ![t] = st]
       /\ t_pc' = [t_pc EXCEPT ![t] = IF Finished(st) THEN "idle" ELSE "request"]

\* fetch_daily: await self._apply_rate_limit()
P_FetchDaily ==
    /\ n_calls < MaxFetches
    /\ n_calls' = n_calls + 1
    /\ \E t \in ProviderTasks, granted \in BOOLEAN :
          /\ t_pc[t] = "idle"
          /\ LimiterAcquire(t, granted)
          /\ IF granted THEN EnterRequest(t)
             ELSE /\ t_pc' = [t_pc EXCEPT ![t] = "waiting"]
                  /\ UNCHANGED t_retry
    /\ UNCHANGED <<now, rate, period, retry_cfg, t_due, gets, storageVars, fetcherVars,
                   schedVars, extVars>>

\* the suspended acquire() returns
P_Resume ==
    /\ \E t \in ProviderTasks :
          /\ t_pc[t] = "waiting"
          /\ LimiterResume(t)
          /\ EnterRequest(t)
    /\ UNCHANGED <<now, rate, period, n_calls, retry_cfg, t_due, gets, storageVars,
                   fetcherVars, schedVars, extVars>>

\* _request_daily: client.get(...), raise_for_status(), response.json()
P_Get ==
    /\ \E t \in ProviderTasks :
          /\ t_pc[t] = "request"
          /\ t_retry[t].pc = "call"
          /\ \E outcome \in {Returns("payload"), Raises("HTTPStatusError")} :
                LET st == retry_after_call(retry_cfg, t_retry[t], outcome)
                IN /\ t_retry' = [t_retry EXCEPT ![t] = st]
                   /\ t_pc' = [t_pc EXCEPT ![t] = IF Finished(st) THEN "idle"
                                                  ELSE "request"]
                   /\ t_due' = [t_due EXCEPT ![t] = IF st.pc = "sleep"
                                                    THEN now + t_retry[t].delay
                                                    ELSE t_due[t]]
    /\ gets' = Append(gets, now)
    /\ UNCHANGED <<now, rate, period, sem_value, sem_waiters, release_tasks, grants,
                   n_calls, retry_cfg, storageVars, fetcherVars, schedVars, extVars>>

\* the wrapper's asyncio.sleep(delay) is over
P_SleepElapses ==
    /\ \E t \in ProviderTasks :
          /\ t_pc[t] = "request"
          /\ t_retry[t].pc = "sleep"
          /\ t_due[t] <= now
          /\ LET st == retry_after_sleep(retry_cfg, t_retry[t])
             IN /\ t_retry' = [t_retry EXCEPT ![t] = st]
                /\ t_pc' = [t_pc EXCEPT ![t] = IF Finished(st) THEN "idle" ELSE "request"]
    /\ UNCHANGED <<now, rate, period, sem_value, sem_waiters, release_tasks, grants,
                   n_calls, retry_cfg, t_due, gets, storageVars, fetcherVars, schedVars, extVars>>

InitProvider ==
    /\ NoExt
    /\ InitStorageTables
    /\ NoFetcher
    /\ NoScheduler
    /\ now = 0
    /\ \E r \in 1..MaxRate, p \in 1..MaxPer : AsyncRateLimiter_init(r, p)
    /\ retry_cfg \in {cfg \in RetryConfigs : cfg.base_delay = 1}
    /\ NoTasks

NextProvider ==
    \/ P_FetchDaily
    \/ P_Resume
    \/ P_Get
    \/ P_SleepElapses
    \/ DelayedRelease
    \/ Tick

SpecProvider == InitProvider /\ [][NextProvider]_vars

(***************************************************************************)
(* C8: every HTTP GET, a retry's included, has a grant of acquire() of its *)
(* own before it, and so rate + 1 GETs are never issued through one        *)
(* limiter within less than `per`.                                         *)
(***************************************************************************)
C8_EveryGetHasItsOwnGrant ==
    /\ Len(gets) <= Len(grants)
    /\ \A i \in DOMAIN gets :
          (i + rate) \in DOMAIN gets => gets[i + rate] >= gets[i] + period

(***************************************************************************)
(* C1: a run of run_daily_update calls fetcher.fetch only for the trade    *)
(* date, only for symbols of its working set that had no daily bar for     *)
(* that date when the run started, and for none of them twice; a run that  *)
(* completes has called it for every one of them.  A run over symbols that *)
(* are all covered makes no fetch, and a run that follows an aborted run   *)
(* fetches only what is still missing.                                     *)
(***************************************************************************)
IsFetch(e) == e.call = "fetch"

IsUpsert(e) == e.call = "upsert_daily_bars"

FetchIndices == {k \in DOMAIN s_events : IsFetch(s_events[k])}

FetchedSymbols == {s_events[k].symbol : k \in FetchIndices}

C1_DailyUpdateFetchesExactlyMissing ==
    s_mode = "daily" =>
        /\ FetchedSymbols \subseteq s_missing_at_start
        /\ \A j, k \in FetchIndices : s_events[j].symbol = s_events[k].symbol => j = k
        /\ \A k \in FetchIndices : s_events[k].trade_date = today
        /\ s_pc = "done" => FetchedSymbols = s_missing_at_start

\* a re-run after an aborted run: 000001 was stored by then, only 600000 is fetched
C1_Witness ==
    /\ s_mode = "daily"
    /\ s_prev = "aborted"
    /\ s_pc = "done"
    /\ Range(s_symbols) = Symbols
    /\ s_missing_at_start = {"600000"}
    /\ FetchedSymbols = {"600000"}
    /\ HasBar("000001", today)

(***************************************************************************)
(* C2: in run_initial_load, the turn of one input symbol makes at most one *)
(* upsert_daily_bars call; the call comes after fetches for the whole      *)
(* calendar, its batch is exactly the Bars those fetches returned, in      *)
(* calendar order, and it is not made when no fetch returned a Bar.        *)
(***************************************************************************)
RECURSIVE FetchedBars(_)
FetchedBars(events) ==
    IF events = <<>> THEN <<>>
    ELSE (IF IsFetch(Head(events)) THEN Head(events).bars ELSE <<>>)
            \o FetchedBars(Tail(events))

C2_InitialLoadOneBatchPerSymbol ==
    s_mode = "initial" =>
        LET fetches == SelectSeq(s_events, IsFetch)
            upserts == SelectSeq(s_events, IsUpsert)
        IN /\ Len(upserts) <= 1
           /\ \A k \in DOMAIN s_events :
                 IsUpsert(s_events[k]) =>
                    /\ k = Len(s_events)
                    /\ [i \in DOMAIN fetches |-> fetches[i].trade_date] = s_calendar
                    /\ \A i \in DOMAIN fetches : fetches[i].symbol = s_events[k].symbol
                    /\ s_events[k].bars = FetchedBars(s_events)
                    /\ s_events[k].bars # <<>>
           /\ s_pc = "il_stored" =>
                 /\ Len(upserts) = 1
                 /\ \A i \in DOMAIN s_bars : daily_bar_record(s_bars[i]) \in daily_bars
           /\ (FetchedBars(s_events) = <<>> /\ s_i = 1) => daily_bars = {}

\* three trading days, the middle one without data: one batch of two Bars
C2_Witness ==
    /\ s_mode = "initial"
    /\ s_pc = "il_stored"
    /\ Len(s_calendar) = 3
    /\ Len(s_events) = 4
    /\ s_events[1].bars # <<>>
    /\ s_events[2].bars = <<>>
    /\ s_events[3].bars # <<>>
    /\ IsUpsert(s_events[4])
    /\ Len(s_events[4].bars) = 2

(***************************************************************************)
(* C10: in both schedulers only a Storage call ends a run with an          *)
(* exception, and nothing of the run follows it; a fetch that fails or     *)
(* returns nothing never does, the run goes on to the next date or symbol. *)
(***************************************************************************)
C10_OnlyStorageFailureAborts ==
    /\ \A k \in DOMAIN s_events :
          s_events[k].raised =>
             /\ k = Len(s_events)
             /\ s_pc = "aborted"
             /\ s_events[k].call \in StorageCalls
    /\ s_pc = "aborted" => s_events # <<>> /\ s_events[Len(s_events)].raised
    /\ \A k \in DOMAIN s_events :
          (IsFetch(s_events[k]) /\ s_events[k].bars = <<>> /\ k = Len(s_events))
             => s_pc \in {"du_loop", "il_walk", "done"}

\* 000001 had no data, 600000 was fetched all the same, then its write failed
C10_Witness ==
    /\ s_mode = "daily"
    /\ s_pc = "aborted"
    /\ \E j, k \in FetchIndices :
          /\ j < k
          /\ s_events[j].symbol = "000001"
          /\ s_events[j].bars = <<>>
          /\ s_events[k].symbol = "600000"
          /\ s_events[k].bars # <<>>
    /\ IsUpsert(s_events[Len(s_events)])
    /\ s_events[Len(s_events)].raised
    /\ ~HasBar("600000", today)

(***************************************************************************)
(* C5: after any sequence of upsert_daily_bars calls the table holds at    *)
(* most one row per (symbol, trade_date), the row of a key is the record   *)
(* of the Bar most recently committed with that key (every non-key field   *)
(* overwritten), and upserting a Bar a second time changes nothing.        *)
(***************************************************************************)
C5_LastWriteWins ==
    /\ \A r1 \in daily_bars, r2 \in daily_bars : SameKey(r1, r2) => r1 = r2
    /\ \A k \in DOMAIN written :
          \E r \in daily_bars :
             /\ r.symbol = k[1] /\ r.trade_date = isoformat(k[2])
             /\ r = daily_bar_record(written[k])
    /\ \A b \in StoreBars :
          LET once == executemany(daily_bars, <<daily_bar_record(b)>>)
          IN executemany(once, <<daily_bar_record(b)>>) = once

C5_Witness ==
    /\ last_call.op = "upsert_daily_bars"
    /\ ~last_call.raised
    /\ last_call.replaced
    /\ Cardinality(daily_bars) = 2

(***************************************************************************)
(* C6: missing_daily_dates(s, D) returns exactly the dates of D, in D's    *)
(* order, for which the table holds no row of symbol s (rows of other      *)
(* symbols do not count), and never a date for which a Bar of s has been   *)
(* committed.                                                              *)
(***************************************************************************)
HasRow(s, d) == \E r \in daily_bars : r.symbol = s /\ r.trade_date = isoformat(d)

C6_MissingExact ==
    /\ last_call.op = "missing_daily_dates" =>
          /\ last_call.result =
                SelectSeq(last_call.dates, LAMBDA d : ~HasRow(last_call.symbol, d))
          /\ Range(last_call.result) \subseteq Range(last_call.dates)
    /\ \A s \in Symbols, D \in UpToTwo(StoreDates) :
          \A i \in DOMAIN D :
             <<s, D[i]>> \in DOMAIN written =>
                D[i] \notin Range(missing_daily_dates(daily_bars, s, D))

C6_Witness ==
    /\ last_call.op = "missing_daily_dates"
    /\ Len(last_call.result) = 1
    /\ Len(last_call.dates) = 2
    /\ \E i \in DOMAIN last_call.dates :
          <<last_call.symbol, last_call.dates[i]>> \in DOMAIN written
    /\ \E s \in Symbols \ {last_call.symbol} : HasRow(s, last_call.result[1])

(***************************************************************************)
(* C3: within one fetch the providers are called in the fixed order of     *)
(* self._providers, which is by priority, highest first; each at most      *)
(* once; no provider is called after one returned a Bar; and the Bar       *)
(* returned is the Bar of the provider called last, the first that         *)
(* returned one.                                                           *)
(***************************************************************************)
PriorityOf(id) == (CHOOSE p \in Range(providers) : p.id = id).priority

C3_PriorityOrderFirstSuccess ==
    /\ Len(f_calls) <= Len(providers)
    /\ \A i \in DOMAIN f_calls : f_calls[i].id = providers[i].id
    /\ \A i \in DOMAIN f_calls, j \in DOMAIN f_calls :
          /\ i < j => PriorityOf(f_calls[i].id) >= PriorityOf(f_calls[j].id)
          /\ i # j => f_calls[i].id # f_calls[j].id
          /\ i < j => f_calls[i].kind # "bar"
    /\ (f_calls # <<>> /\ f_calls[Len(f_calls)].kind = "bar") =>
          /\ f_pc = "returned"
          /\ f_result # None
          /\ f_result.raw = [source |-> f_calls[Len(f_calls)].id]
          /\ f_result.symbol = f_req.symbol
          /\ f_result.trade_date = f_req.trade_date
    /\ (f_pc = "returned" /\ f_result # None) =>
          /\ f_calls # <<>>
          /\ f_calls[Len(f_calls)].kind = "bar"

\* provider A (priority 10) was called first and failed, provider B
\* (priority 5) was called next and returned the Bar that fetch returned
C3_Witness ==
    /\ f_pc = "returned"
    /\ Len(f_calls) = 2
    /\ f_calls[1].kind = "raise" /\ PriorityOf(f_calls[1].id) = 10
    /\ f_calls[2].kind = "bar" /\ PriorityOf(f_calls[2].id) = 5
    /\ f_result # None
    /\ f_result.raw = [source |-> f_calls[2].id]

(***************************************************************************)
(* C4: fetch never ends by raising; a provider that raised or returned     *)
(* None is followed by the next provider, and when every provider raised   *)
(* or returned None fetch returns None.                                    *)
(***************************************************************************)
C4_FetchNeverRaises ==
    /\ f_pc # "raised"
    /\ (f_pc = "loop" /\ f_calls # <<>>) =>
          /\ f_calls[Len(f_calls)].kind \in {"raise", "absent"}
          /\ f_idx = Len(f_calls) + 1
    /\ (f_pc = "returned" /\ \A i \in DOMAIN f_calls : f_calls[i].kind # "bar") =>
          /\ f_result = None
          /\ Len(f_calls) = Len(providers)

C4_Witness ==
    /\ f_pc = "returned"
    /\ f_result = None
    /\ Len(f_calls) = 2
    /\ f_calls[1].kind = "raise"
    /\ f_calls[2].kind = "raise"

(***************************************************************************)
(* storage/sqlite.py: the three batched upserts as SQLite transactions.    *)
(* Each _upsert_*_sync runs in a thread of its own (asyncio.to_thread) on  *)
(* a connection of its own: executemany opens a transaction with the first *)
(* INSERT and applies the records one after the other; `with conn:`        *)
(* commits when the block ends and rolls back when it raises.  A reader's  *)
(* SELECT sees the committed rows.  One connection writes at a time.       *)
(***************************************************************************)
TxnKinds == {"securities", "daily_bars", "adjustment_factors"}

\* upsert_adjustment_factors: (symbol, trade_date.isoformat(), float(value))
adjustment_record(factor) ==
    [symbol |-> factor[1], trade_date |-> isoformat(factor[2]), factor |-> factor[3]]

\* INSERT INTO adjustment_factors ... ON CONFLICT(symbol, trade_date) DO UPDATE
insert_factor_on_conflict_update(table, rec) ==
    {r \in table : ~SameKey(r, rec)} \cup {rec}

\* the records of the batches: two values for one key, and a second key
TxnRecords(kind) ==
    CASE kind = "securities" ->
            {security_record(Security("000001", "PAB", "stock", <<>>, <<>>)),
             security_record(Security("000001", "Ping An", "stock", <<1>>, <<>>)),
             security_record(Security("600000", "SPDB", "stock", <<>>, <<>>))}
      [] kind = "daily_bars" ->
            {daily_bar_record(ProviderResult("000001", 1, 1, 1, 1, 1, 0, 0, [source |-> "qq"])),
             daily_bar_record(ProviderResult("000001", 1, 2, 2, 2, 2, 1, 1, [source |-> "qq"])),
             daily_bar_record(ProviderResult("000001", 2, 1, 1, 1, 1, 0, 0, [source |-> "qq"]))}
      [] kind = "adjustment_factors" ->
            {adjustment_record(<<"000001", 1, 1>>),
             adjustment_record(<<"000001", 1, 2>>),
             adjustment_record(<<"000001", 2, 1>>)}

TxnBatches(kind) ==
    {b \in TxnRecords(kind) \X TxnRecords(kind) : b[1] # b[2]}

\* one record of executemany
apply_record(kind, table, rec) ==
    CASE kind = "securities" -> insert_security_on_conflict_update(table, rec)
      [] kind = "daily_bars" -> insert_on_conflict_update(table, rec)
      [] kind = "adjustment_factors" -> insert_factor_on_conflict_update(table, rec)

\* the committed rows of a table
Table(kind) ==
    CASE kind = "securities" -> securities
      [] kind = "daily_bars" -> daily_bars
      [] kind = "adjustment_factors" -> adjustment_factors

\* what a SELECT returns while another connection has `view` uncommitted
dirty_read(committed, view) == view

snapshot_read(committed, view) == committed

\* conn = sqlite3.connect(self._path), in the thread of an upsert
W_Connect ==
    /\ n_txns < MaxTxns
    /\ n_txns' = n_txns + 1
    /\ \E w \in Writers, kind \in TxnKinds :
          /\ tx[w].pc = "idle"
          /\ \E batch \in TxnBatches(kind) :
                tx' = [tx EXCEPT ![w] = [pc |-> "connected", kind |-> kind,
                                         batch |-> batch, records |-> batch,
                                         view |-> {}]]
    /\ UNCHANGED <<tx_lock, tx_commits, tx_seen, storageVars, fetcherVars, schedVars,
                   netVars, moreVars>>

\* executemany: the first INSERT opens the transaction and takes the write lock
W_Begin ==
    /\ tx_lock = "none"
    /\ \E w \in Writers :
          /\ tx[w].pc = "connected"
          /\ tx_lock' = w
          /\ tx' = [tx EXCEPT ![w].pc = "writing",
                              ![w].view = apply_record(tx[w].kind, Table(tx[w].kind),
                                                       Head(tx[w].records)),
                              ![w].records = Tail(tx[w].records)]
    /\ UNCHANGED <<tx_commits, tx_seen, n_txns, storageVars, fetcherVars, schedVars,
                   netVars, moreVars>>

\* the write lock is held by another connection until the busy timeout:
\* sqlite3.OperationalError, nothing written
W_Busy ==
    /\ \E w \in Writers :
          /\ tx[w].pc = "connected"
          /\ tx_lock \notin {"none", w}
          /\ tx' = [tx EXCEPT ![w] = NoConnection]
    /\ UNCHANGED <<tx_lock, tx_commits, tx_seen, n_txns, storageVars, fetcherVars,
                   schedVars, netVars, moreVars>>

\* executemany: the next record
W_Execute ==
    /\ \E w \in Writers :
          /\ tx[w].pc = "writing"
          /\ tx[w].records # <<>>
          /\ tx' = [tx EXCEPT ![w].view = apply_record(tx[w].kind, tx[w].view,
                                                       Head(tx[w].records)),
                              ![w].records = Tail(tx[w].records)]
    /\ UNCHANGED <<tx_lock, tx_commits, tx_seen, n_txns, storageVars, fetcherVars,
                   schedVars, netVars, moreVars>>

\* the `with conn:` block ends: commit, then conn.close()
W_Commit ==
    /\ \E w \in Writers :
          /\ tx[w].pc = "writing"
          /\ tx[w].records = <<>>
          /\ securities' = IF tx[w].kind = "securities" THEN tx[w].view ELSE securities
          /\ daily_bars' = IF tx[w].kind = "daily_bars" THEN tx[w].view ELSE daily_bars
          /\ adjustment_factors' = IF tx[w].kind = "adjustment_factors" THEN tx[w].view
                                   ELSE adjustment_factors
          /\ tx_commits' = Append(tx_commits,
                                  [kind |-> tx[w].kind, records |-> tx[w].batch])
          /\ tx' = [tx EXCEPT ![w] = NoConnection]
    /\ tx_lock' = "none"
    /\ UNCHANGED <<tx_seen, n_txns, last_call, written, fetcherVars, schedVars, netVars, moreVars>>

\* executemany raises, or the thread or the process is interrupted, with the
\* transaction open: rollback
W_Rollback ==
    /\ \E w \in Writers :
          /\ tx[w].pc = "writing"
          /\ tx' = [tx EXCEPT ![w] = NoConnection]
    /\ tx_lock' = "none"
    /\ UNCHANGED <<tx_commits, tx_seen, n_txns, storageVars, fetcherVars, schedVars,
                   netVars, moreVars>>

\* a reader's SELECT on one table (list_tracked_symbols, _existing_dates_sync)
R_Select ==
    /\ \E kind \in TxnKinds :
          LET writing == {w \in Writers : tx[w].pc = "writing" /\ tx[w].kind = kind}
          IN tx_seen' =
                [kind |-> kind,
                 rows |-> IF writing = {} THEN Table(kind)
                          ELSE snapshot_read(Table(kind), tx[CHOOSE w \in writing : TRUE].view),
                 during |-> writing # {}]
    /\ UNCHANGED <<tx, tx_lock, tx_commits, n_txns, storageVars, fetcherVars, schedVars,
                   netVars, moreVars>>

InitTxn ==
    /\ InitStorageTables
    /\ NoFetcher
    /\ NoScheduler
    /\ NoNetwork
    /\ NoTxn
    /\ market = AnyMarket
    /\ NoOther

NextTxn ==
    \/ W_Connect
    \/ W_Begin
    \/ W_Busy
    \/ W_Execute
    \/ W_Commit
    \/ W_Rollback
    \/ R_Select

SpecTxn == InitTxn /\ [][NextTxn]_vars

(***************************************************************************)
(* C11: each table holds the rows of the batches committed on it, applied  *)
(* whole and in commit order: no row of a batch that is being written, was *)
(* rolled back or was refused is in it.  What a reader's SELECT returned   *)
(* is the table as it was after some number of committed batches, also     *)
(* when the SELECT ran while a batch was being written.                    *)
(***************************************************************************)
RECURSIVE ApplyBatch(_, _, _)
ApplyBatch(kind, table, records) ==
    IF records = <<>> THEN table
    ELSE ApplyBatch(kind, apply_record(kind, table, Head(records)), Tail(records))

RECURSIVE Replay(_, _)
Replay(kind, k) ==
    IF k = 0 THEN {}
    ELSE IF tx_commits[k].kind = kind
         THEN ApplyBatch(kind, Replay(kind, k - 1), tx_commits[k].records)
         ELSE Replay(kind, k - 1)

C11_BatchesAreAtomic ==
    /\ \A kind \in TxnKinds : Table(kind) = Replay(kind, Len(tx_commits))
    /\ tx_seen.kind # "none" =>
          \E k \in 0..Len(tx_commits) : tx_seen.rows = Replay(tx_seen.kind, k)

\* a SELECT ran while the second batch on a table had updated a row of the
\* first and not yet inserted its other row: it returned the first batch's rows
C11_Witness ==
    /\ Len(tx_commits) = 1
    /\ \E w \in Writers :
          /\ tx[w].pc = "writing"
          /\ tx[w].kind = tx_commits[1].kind
          /\ Len(tx[w].records) = 1
          /\ tx[w].view # Table(tx[w].kind)
          /\ Cardinality(tx[w].view) = Cardinality(Table(tx[w].kind))
          /\ tx_seen.kind = tx[w].kind
          /\ tx_seen.during
          /\ tx_seen.rows = Table(tx[w].kind)

(***************************************************************************)
(* run_initial_load run again: after a run that completed or was aborted,  *)
(* it is called with the same symbols, start and end, while the sources    *)
(* serve the same data at every request.                                   *)
(***************************************************************************)
StoredSymbols == {r.symbol : r \in daily_bars}

IL_Restart ==
    /\ s_mode = "initial"
    /\ s_pc \in {"done", "aborted"}
    /\ s_prev' = s_pc
    /\ s_pc' = "il_walk"
    /\ s_i' = 1
    /\ s_j' = 1
    /\ s_bars' = <<>>
    /\ s_events' = <<>>
    /\ s_missing_at_start' = Range(s_symbols) \ StoredSymbols
    /\ UNCHANGED <<today, s_mode, s_symbols, s_calendar, s_missing_map, s_bar,
                   s_symbols_arg, storageVars, fetcherVars, netVars, extVars>>

\* the task running run_initial_load is cancelled while it waits in one of
\* its awaits: CancelledError leaves the two loops where they are.  The
\* write of upsert_daily_bars runs in a worker thread (asyncio.to_thread)
\* that a cancellation does not stop: the run can end at that await with
\* the batch committed (il_stored)
IL_Cancel ==
    /\ s_mode = "initial"
    /\ s_pc \in {"il_walk", "il_stored"}
    /\ s_pc' = "aborted"
    /\ UNCHANGED <<today, s_mode, s_symbols, s_calendar, s_i, s_j, s_bars, s_missing_map,
                   s_bar, s_events, s_missing_at_start, s_prev, s_symbols_arg, storageVars, fetcherVars,
                   netVars, extVars>>

InitRerun ==
    /\ NoTxn
    /\ market \in [fixed : {TRUE}, closed : SUBSET {d \in 1..MaxDay : weekday(d) < 5}]
    /\ NoOther
    /\ SchedulerStart

NextRerun ==
    \/ IL_Start
    \/ IL_Fetch
    \/ IL_Upsert
    \/ IL_NextSymbol
    \/ IL_Done
    \/ IL_Cancel
    \/ IL_Restart

SpecRerun == InitRerun /\ [][NextRerun]_vars

(***************************************************************************)
(* C12: with sources that serve the same data at every request, whenever a *)
(* run of run_initial_load completes -- the first run, or a run that       *)
(* follows completed or aborted runs for the same symbols and window --    *)
(* daily_bars holds exactly one row for every (symbol, trading day) the    *)
(* sources have data for, with the values of the Bar fetched, and nothing  *)
(* else.                                                                   *)
(***************************************************************************)
RowsOfCompleteRun ==
    {daily_bar_record(clean(MarketBar(x, d))) :
        x \in Range(s_symbols), d \in Range(s_calendar) \ market.closed}

C12_RerunLeavesSameState ==
    /\ \A r1, r2 \in daily_bars : SameKey(r1, r2) => r1 = r2
    /\ (s_mode = "initial" /\ s_pc = "done") => daily_bars = RowsOfCompleteRun
    /\ s_mode = "initial" => daily_bars \subseteq RowsOfCompleteRun

\* a run aborted at the write of 600000, after 000001 was stored, is followed
\* by a run that completes
C12_Witness ==
    /\ s_mode = "initial"
    /\ s_prev = "aborted"
    /\ s_pc = "done"
    /\ s_symbols = <<"000001", "600000">>
    /\ s_missing_at_start = {"600000"}
    /\ Len(s_calendar) >= 2
    /\ Cardinality(daily_bars) >= 3
    /\ StoredSymbols = Symbols

(***************************************************************************)
(* C13: run_initial_load issues a fetch only for a (symbol, date) that has *)
(* no Bar in Storage: the pair of the fetch just made is not stored.       *)
(***************************************************************************)
C13_InitialLoadFetchesOnlyMissing ==
    (s_mode = "initial" /\ s_events # <<>> /\ IsFetch(s_events[Len(s_events)])) =>
        ~HasBar(s_events[Len(s_events)].symbol, s_events[Len(s_events)].trade_date)

(***************************************************************************)
(* C14: every Bar that fetch returns has low <= open <= high and           *)
(* low <= close <= high, and a volume and a turnover that are numbers (0   *)
(* when the provider gave none).                                           *)
(***************************************************************************)
C14_ReturnedBarIsOrdered ==
    (f_pc = "returned" /\ f_result # None) =>
        /\ float_le(f_result.low, f_result.open)
        /\ float_le(f_result.open, f_result.high)
        /\ float_le(f_result.low, f_result.close)
        /\ float_le(f_result.close, f_result.high)
        /\ f_result.volume \in Nat
        /\ f_result.turnover \in Nat

(***************************************************************************)
(* providers/qq.py and providers/eastmoney.py: _parse_payload.             *)
(* A JSON field is a number, a text that float() accepts, another text,    *)
(* null, or not there.                                                     *)
(***************************************************************************)
Fields == {[t |-> "number", v |-> 1], [t |-> "numeric_text", v |-> 2],
           [t |-> "text", v |-> 0], [t |-> "null", v |-> 0], [t |-> "missing", v |-> 0]}

Ok(v) == [ok |-> TRUE, v |-> v]

Err(type) == [ok |-> FALSE, type |-> type]

\* float(x) for the value of a field; x is None when the field is null
float(field) ==
    CASE field.t \in {"number", "numeric_text"} -> Ok(field.v)
      [] field.t = "text" -> Err("ValueError")
      [] field.t = "null" -> Err("TypeError")

\* bar.get(key, default)
get(field, default) == IF field.t = "missing" THEN default ELSE field

NullField == [t |-> "null", v |-> 0]

ZeroField == [t |-> "number", v |-> 0]

(***************************************************************************)
(* The payloads of the QQ source: `data` is not there (or empty), is not a *)
(* record (a non-empty list, a text), or is a record; `diff` is not there  *)
(* or an empty list, or a list whose first entry is a record or is not     *)
(* one; `bar` holds the fields of the record the prices are read from.     *)
(***************************************************************************)
QQBars ==
    {[open |-> o, high |-> [t |-> "number", v |-> 2], low |-> [t |-> "number", v |-> 1],
      close |-> c, volume |-> v, turnover |-> t] :
        o \in Fields, c \in {f \in Fields : f.t \in {"number", "missing"}},
        v \in Fields, t \in {f \in Fields : f.t \in {"number", "text", "missing"}}}

QQPayloads ==
    {[data |-> "absent"], [data |-> "nonrecord"]}
        \cup {[data |-> "record", diff |-> "nonrecords"]}
        \cup {[data |-> "record", diff |-> df, bar |-> b] :
                 df \in {"absent", "records"}, b \in QQBars}

qq_parse_payload(symbol, trade_date, payload) ==
    IF payload.data = "absent" THEN [kind |-> "absent"]
    ELSE IF payload.data = "nonrecord" THEN [kind |-> "raise", type |-> "AttributeError"]
    ELSE IF payload.diff = "nonrecords" THEN [kind |-> "raise", type |-> "AttributeError"]
    ELSE LET bar == payload.bar
             open_price == float(get(bar.open, NullField))
             high_price == float(get(bar.high, NullField))
             low_price == float(get(bar.low, NullField))
             close_price == float(get(bar.close, NullField))
             volume == float(get(bar.volume, ZeroField))
             turnover == float(get(bar.turnover, ZeroField))
         IN IF ~(open_price.ok /\ high_price.ok /\ low_price.ok /\ close_price.ok)
            THEN [kind |-> "absent"]
            ELSE IF ~volume.ok THEN [kind |-> "raise", type |-> volume.type]
            ELSE IF ~turnover.ok THEN [kind |-> "raise", type |-> turnover.type]
            ELSE [kind |-> "bar",
                  bar |-> ProviderResult(symbol, trade_date, <<open_price.v>>,
                                         high_price.v, low_price.v, close_price.v,
                                         <<volume.v>>, <<turnover.v>>, payload)]

(***************************************************************************)
(* The payloads of the EastMoney source: `klines` is not there (or empty), *)
(* is a number, or is a list of entries; an entry is not a text, or is a   *)
(* text "date,f,f,..." of comma separated parts, of which `parts` counts   *)
(* all and `numeric` says whether float() accepts the price and volume     *)
(* parts.                                                                  *)
(***************************************************************************)
Rows ==
    {[str |-> FALSE]}
        \cup {[str |-> TRUE, date |-> d, parts |-> n, numeric |-> b] :
                 d \in StoreDates, n \in {3, 7, 8}, b \in BOOLEAN}

EastMoneyPayloads ==
    {[data |-> "absent"], [data |-> "nonrecord"],
     [data |-> "record", klines |-> "absent"], [data |-> "record", klines |-> "number"]}
        \cup {[data |-> "record", klines |-> "list", rows |-> r] :
                 r \in SeqsUpTo(Rows, 2) \ {<<>>}}

\* row.startswith(date_str)
startswith(row, trade_date) == row.str /\ row.date = trade_date

\* the first entry of klines that is a text and starts with the date
target_row(rows, trade_date) ==
    LET hits == {i \in DOMAIN rows : startswith(rows[i], trade_date)}
    IN IF hits = {} THEN None
       ELSE rows[CHOOSE i \in hits : \A j \in hits : i <= j]

eastmoney_parse_payload(symbol, trade_date, payload) ==
    IF payload.data = "absent" THEN [kind |-> "absent"]
    ELSE IF payload.data = "nonrecord" THEN [kind |-> "raise", type |-> "AttributeError"]
    ELSE IF payload.klines = "absent" THEN [kind |-> "absent"]
    ELSE IF payload.klines = "number" THEN [kind |-> "raise", type |-> "TypeError"]
    ELSE LET target == target_row(payload.rows, trade_date)
         IN IF target = None THEN [kind |-> "absent"]
            ELSE IF target.parts < 7 \/ ~target.numeric THEN [kind |-> "absent"]
            ELSE [kind |-> "bar",
                  bar |-> ProviderResult(symbol, trade_date, <<1>>, 2, 1, 1, <<1>>, <<1>>,
                                         payload)]

(***************************************************************************)
(* DailyFetcher over an EastMoneyProvider (priority 5) and a QQProvider    *)
(* (priority 10): the provider's request returned a payload and its        *)
(* fetch_daily hands it to _parse_payload.                                 *)
(***************************************************************************)
ProviderName(id) == IF id = 1 THEN "eastmoney" ELSE "qq"

parse_payload(id, symbol, trade_date, payload) ==
    IF ProviderName(id) = "qq"
    THEN qq_parse_payload(symbol, trade_date, payload)
    ELSE eastmoney_parse_payload(symbol, trade_date, payload)

PayloadFetch ==
    /\ f_pc \in {"idle", "returned"}
    /\ \E s \in Symbols, d \in StoreDates : f_req' = [symbol |-> s, trade_date |-> d]
    /\ SetFetchState(FetchEntered)
    /\ resp' = None
    /\ UNCHANGED <<providers, storageVars, schedVars, netVars, txVars, market, closing, clients, limiters, lateVars>>

Parsed(payload) ==
    /\ resp' = [provider |-> ProviderName(providers[f_idx].id), payload |-> payload]
    /\ SetFetchState(fetch_step(providers, FetchState,
                                parse_payload(providers[f_idx].id, f_req.symbol,
                                              f_req.trade_date, payload)))
    /\ UNCHANGED <<providers, f_req, storageVars, schedVars, netVars, txVars, market, closing, clients, limiters, lateVars>>

QQ_FetchDaily ==
    /\ f_pc = "loop"
    /\ f_idx <= Len(providers)
    /\ ProviderName(providers[f_idx].id) = "qq"
    /\ \E payload \in QQPayloads : Parsed(payload)

EastMoney_FetchDaily ==
    /\ f_pc = "loop"
    /\ f_idx <= Len(providers)
    /\ ProviderName(providers[f_idx].id) = "eastmoney"
    /\ \E payload \in EastMoneyPayloads : Parsed(payload)

PayloadExhausted ==
    /\ f_pc = "loop"
    /\ f_idx > Len(providers)
    /\ SetFetchState(fetch_step(providers, FetchState, [kind |-> "absent"]))
    /\ UNCHANGED <<providers, f_req, storageVars, schedVars, netVars, txVars, market, resp, closing, clients, limiters, lateVars>>

InitParse ==
    /\ InitStorageTables
    /\ providers = DailyFetcher_init(SchedulerPriorities)
    /\ f_pc = "idle"
    /\ f_req = [symbol |-> "000001", trade_date |-> 1]
    /\ f_idx = 1
    /\ f_result = None
    /\ f_calls = <<>>
    /\ NoScheduler
    /\ NoNetwork
    /\ NoExt

NextParse ==
    \/ PayloadFetch
    \/ QQ_FetchDaily
    \/ EastMoney_FetchDaily
    \/ PayloadExhausted

SpecParse == InitParse /\ [][NextParse]_vars

(***************************************************************************)
(* C15: whatever payload the source returned, _parse_payload does not      *)
(* raise: the call of the provider ends with a Bar or with None, and after *)
(* a payload that gives no Bar fetch goes on with the next provider.       *)
(***************************************************************************)
C15_ParsingNeverRaises ==
    /\ \A i \in DOMAIN f_calls : f_calls[i].kind # "raise"
    /\ (resp # None /\ f_result = None /\ f_pc = "loop") => f_idx = Len(f_calls) + 1

(***************************************************************************)
(* DailyFetcher.close(): `for provider in self._providers: await           *)
(* provider.close()`.  A provider is any BaseProvider; its close() returns *)
(* or raises.                                                              *)
(***************************************************************************)
close_step(provs, st) ==
    IF st.idx > Len(provs)
    THEN [st EXCEPT !.pc = "returned"]
    ELSE LET called == [st EXCEPT !.called = Append(@, provs[st.idx].id)]
         IN IF provs[st.idx].id \in st.raising
            THEN [called EXCEPT !.pc = "raised"]
            ELSE [called EXCEPT !.idx = @ + 1]

DF_Close ==
    /\ closing.pc = "idle"
    /\ closing' = [closing EXCEPT !.pc = "loop"]
    /\ UNCHANGED <<storageVars, fetcherVars, schedVars, netVars, txVars, market, resp, clients, limiters, lateVars>>

ProviderCloseReturns ==
    /\ closing.pc = "loop"
    /\ closing.idx <= Len(providers)
    /\ providers[closing.idx].id \notin closing.raising
    /\ closing' = close_step(providers, closing)
    /\ UNCHANGED <<storageVars, fetcherVars, schedVars, netVars, txVars, market, resp, clients, limiters, lateVars>>

ProviderCloseRaises ==
    /\ closing.pc = "loop"
    /\ closing.idx <= Len(providers)
    /\ providers[closing.idx].id \in closing.raising
    /\ closing' = close_step(providers, closing)
    /\ UNCHANGED <<storageVars, fetcherVars, schedVars, netVars, txVars, market, resp, clients, limiters, lateVars>>

DF_CloseReturns ==
    /\ closing.pc = "loop"
    /\ closing.idx > Len(providers)
    /\ closing' = close_step(providers, closing)
    /\ UNCHANGED <<storageVars, fetcherVars, schedVars, netVars, txVars, market, resp, clients, limiters, lateVars>>

InitClose ==
    /\ InitStorageTables
    /\ NoScheduler
    /\ NoNetwork
    /\ NoTxn
    /\ market = AnyMarket
    /\ resp = None
    /\ clients = None
    /\ limiters = None
    /\ NoLate
    /\ \E priorities \in SeqsUpTo(Priorities, MaxClose) :
          providers = DailyFetcher_init(priorities)
    /\ f_pc = "idle"
    /\ f_req = None
    /\ f_idx = 1
    /\ f_result = None
    /\ f_calls = <<>>
    /\ \E raising \in SUBSET (1..Len(providers)) :
          closing = [pc |-> "idle", idx |-> 1, called |-> <<>>, raising |-> raising]

NextClose ==
    \/ DF_Close
    \/ ProviderCloseReturns
    \/ ProviderCloseRaises
    \/ DF_CloseReturns

SpecClose == InitClose /\ [][NextClose]_vars

(***************************************************************************)
(* C16: when close() has ended, by returning or by raising, close() was    *)
(* called on every provider of the fetcher.                                *)
(***************************************************************************)
C16_EveryProviderClosed ==
    (closing # None /\ closing.pc \in {"returned", "raised"}) =>
        \A i \in DOMAIN providers : providers[i].id \in Range(closing.called)

(***************************************************************************)
(* The HTTP client of a provider (eastmoney.py and qq.py have the same     *)
(* code): __init__ keeps the client it is given, _request_daily uses it or *)
(* creates one for the attempt and closes that one in `finally`, close()   *)
(* closes self._client when the provider owns it.                          *)
(***************************************************************************)
ProviderNames == {"eastmoney", "qq"}

\* self._client = client; self._owns_client = client is None
Provider_init(injected) ==
    [injected |-> injected, pc |-> "idle", made |-> 0, open |-> {}, failed |-> FALSE,
     last |-> "none", injected_closed |-> FALSE]

\* client = self._client or httpx.AsyncClient(...)
request_begin(st) ==
    IF st.injected
    THEN [st EXCEPT !.pc = "get"]
    ELSE [st EXCEPT !.pc = "get", !.made = @ + 1, !.open = @ \cup {st.made + 1}]

\* the try block ends by returning the payload or by raising
request_get(st, failed) == [st EXCEPT !.pc = "finally", !.failed = failed]

\* a `finally` that would close the client after a successful request only
request_finally_on_success(st) ==
    [st EXCEPT !.pc = "idle",
               !.open = IF ~st.injected /\ ~st.failed THEN @ \ {st.made} ELSE @,
               !.last = IF st.failed THEN "raised" ELSE "returned"]

\* finally: if close_client: await client.aclose(); close_client is
\* `client is not self._client`
request_finally(st) ==
    [st EXCEPT !.pc = "idle",
               !.open = IF ~st.injected THEN @ \ {st.made} ELSE @,
               !.last = IF st.failed THEN "raised" ELSE "returned"]

\* close(): if self._owns_client and self._client is not None: aclose()
provider_close(st) ==
    LET owns_client == ~st.injected
        client_is_not_None == st.injected
    IN IF owns_client /\ client_is_not_None
       THEN [st EXCEPT !.injected_closed = TRUE]
       ELSE st

C_RequestDaily ==
    /\ \E p \in ProviderNames :
          /\ clients[p].pc = "idle"
          /\ clients[p].made < MaxClients
          /\ clients' = [clients EXCEPT ![p] = request_begin(@)]
    /\ UNCHANGED <<storageVars, fetcherVars, schedVars, netVars, txVars, market, resp, closing, limiters, lateVars>>

C_GetReturns ==
    /\ \E p \in ProviderNames :
          /\ clients[p].pc = "get"
          /\ clients' = [clients EXCEPT ![p] = request_get(@, FALSE)]
    /\ UNCHANGED <<storageVars, fetcherVars, schedVars, netVars, txVars, market, resp, closing, limiters, lateVars>>

C_GetRaises ==
    /\ \E p \in ProviderNames :
          /\ clients[p].pc = "get"
          /\ clients' = [clients EXCEPT ![p] = request_get(@, TRUE)]
    /\ UNCHANGED <<storageVars, fetcherVars, schedVars, netVars, txVars, market, resp, closing, limiters, lateVars>>

C_Finally ==
    /\ \E p \in ProviderNames :
          /\ clients[p].pc = "finally"
          /\ clients' = [clients EXCEPT ![p] = request_finally(@)]
    /\ UNCHANGED <<storageVars, fetcherVars, schedVars, netVars, txVars, market, resp, closing, limiters, lateVars>>

C_ProviderClose ==
    /\ \E p \in ProviderNames :
          /\ clients[p].pc = "idle"
          /\ clients[p].last # "closed"
          /\ clients' = [clients EXCEPT ![p] = [provider_close(@) EXCEPT !.last = "closed"]]
    /\ UNCHANGED <<storageVars, fetcherVars, schedVars, netVars, txVars, market, resp, closing, limiters, lateVars>>

InitClient ==
    /\ InitStorageTables
    /\ NoFetcher
    /\ NoScheduler
    /\ NoNetwork
    /\ NoTxn
    /\ market = AnyMarket
    /\ resp = None
    /\ closing = None
    /\ limiters = None
    /\ NoLate
    /\ \E injected \in [ProviderNames -> BOOLEAN] :
          clients = [p \in ProviderNames |-> Provider_init(injected[p])]

NextClient ==
    \/ C_RequestDaily
    \/ C_GetReturns
    \/ C_GetRaises
    \/ C_Finally
    \/ C_ProviderClose

SpecClient == InitClient /\ [][NextClient]_vars

(***************************************************************************)
(* C17: aclose() is never called on a client that was passed to the        *)
(* provider, and when an attempt of _request_daily has returned or raised  *)
(* every client the provider created is closed.                            *)
(***************************************************************************)
C17_ClientLifecycle ==
    \A p \in ProviderNames :
        /\ ~clients[p].injected_closed
        /\ clients[p].pc = "idle" => clients[p].open = {}
        /\ clients[p].injected => clients[p].made = 0

\* one provider made a client for an attempt that raised and closed it, the
\* other used the client it was given and was closed afterwards
C17_Witness ==
    \E p, q \in ProviderNames :
        /\ ~clients[p].injected
        /\ clients[p].pc = "idle"
        /\ clients[p].last = "raised"
        /\ clients[p].made = 2
        /\ clients[q].injected
        /\ clients[q].last = "closed"

(***************************************************************************)
(* The rate limiters of the providers.  A caller may construct an          *)
(* AsyncRateLimiter and pass it to a provider; a provider constructed      *)
(* without one makes its own: `rate_limiter or AsyncRateLimiter(rate=      *)
(* settings.max_requests_per_second, per=1)`.  In this specification       *)
(* `rate` is settings.max_requests_per_second.                             *)
(***************************************************************************)
ValueError == [exc |-> "ValueError", attempt |-> 0]

\* a constructor that would accept every rate and per
AsyncRateLimiter_unchecked(r, p) ==
    [rate |-> r, period |-> p, value |-> r, waiters |-> <<>>, release_tasks |-> <<>>]

\* AsyncRateLimiter(rate=r, per=p)
AsyncRateLimiter(r, p) ==
    IF r <= 0 THEN ValueError
    ELSE IF p <= 0 THEN ValueError
    ELSE [rate |-> r, period |-> p, value |-> r, waiters |-> <<>>, release_tasks |-> <<>>]

NoLimiters == [state |-> <<>>, of |-> <<>>, last |-> None]

\* the limiters with the limiter `lim` put under the name `id`
WithLimiter(id, lim) == [l \in DOMAIN limiters.state \cup {id} |->
                            IF l = id THEN lim ELSE limiters.state[l]]

\* the providers with provider p holding the limiter named `id`
WithProvider(p, id) == [q \in DOMAIN limiters.of \cup {p} |->
                           IF q = p THEN id ELSE limiters.of[q]]

Construction(id, r, p, made) ==
    [id |-> id, rate |-> r, per |-> p, raised |-> made = ValueError]

\* acquire() on the limiter lim at `time`, up to its return or its suspension
acquire(lim, t, time) ==
    IF ~locked(lim.value, lim.waiters)
    THEN [lim EXCEPT !.value = @ - 1,
                     !.release_tasks = Append(@, [granted |-> time,
                                                  due |-> release_due(time, lim.period)])]
    ELSE [lim EXCEPT !.waiters = Append(@, [task |-> t, done |-> FALSE])]

\* acquire() from the wake-up of its future to its return
resume(lim, t, time) ==
    LET rest == SelectSeq(lim.waiters, LAMBDA w : w.task # t)
        sem == wake_while([value |-> lim.value, waiters |-> rest, woke |-> FALSE])
    IN [lim EXCEPT !.value = sem.value, !.waiters = sem.waiters,
                   !.release_tasks = Append(@, [granted |-> time,
                                                due |-> release_due(time, lim.period)])]

\* _delayed_release wakes from its sleep
delayed_release(lim) ==
    LET sem == release([value |-> lim.value, waiters |-> lim.waiters, woke |-> FALSE])
    IN [lim EXCEPT !.value = sem.value, !.waiters = sem.waiters,
                   !.release_tasks = Tail(@)]

\* the caller constructs a limiter to pass to providers
SL_NewLimiter ==
    /\ limiters.last = None
    /\ \E r \in 0..MaxRate, p \in 0..MaxPer :
          LET made == AsyncRateLimiter(r, p)
          IN limiters' = [limiters EXCEPT
                 !.state = IF made = ValueError THEN @ ELSE WithLimiter("shared", made),
                 !.last = Construction("shared", r, p, made)]
    /\ UNCHANGED <<storageVars, fetcherVars, schedVars, netVars, txVars, market, resp,
                   closing, clients, lateVars>>

\* EastMoneyProvider(rate_limiter=...) or QQProvider(rate_limiter=...)
SL_NewProvider ==
    /\ \E p \in ProviderNames \ DOMAIN limiters.of, inject \in BOOLEAN :
          /\ inject => "shared" \in DOMAIN limiters.state
          /\ IF inject
             THEN limiters' = [limiters EXCEPT !.of = WithProvider(p, "shared")]
             ELSE LET made == AsyncRateLimiter(rate, 1)
                  IN limiters' = [limiters EXCEPT
                        !.state = IF made = ValueError THEN @ ELSE WithLimiter(p, made),
                        !.of = IF made = ValueError THEN @ ELSE WithProvider(p, p),
                        !.last = Construction(p, rate, 1, made)]
    /\ n_calls = 0
    /\ UNCHANGED <<storageVars, fetcherVars, schedVars, netVars, txVars, market, resp,
                   closing, clients, lateVars>>

\* a task calls fetch_daily of a provider: await self._apply_rate_limit()
SL_FetchDaily ==
    /\ n_calls < MaxFetches
    /\ n_calls' = n_calls + 1
    /\ \E t \in ProviderTasks, p \in DOMAIN limiters.of :
          LET id == limiters.of[p]
              lim == limiters.state[id]
              granted == ~locked(lim.value, lim.waiters)
          IN /\ t_pc[t] = "idle"
             /\ limiters' = [limiters EXCEPT !.state[id] = acquire(lim, t, now)]
             /\ t_pc' = [t_pc EXCEPT ![t] = IF granted THEN "idle" ELSE "waiting"]
             /\ grants' = IF granted THEN Append(grants, [time |-> now, limiter |-> id])
                          ELSE grants
    /\ UNCHANGED <<now, rate, period, sem_value, sem_waiters, release_tasks, retry_cfg,
                   t_retry, t_due, gets, storageVars, fetcherVars, schedVars, txVars,
                   market, resp, closing, clients, lateVars>>

SL_Resume ==
    /\ \E t \in ProviderTasks, id \in DOMAIN limiters.state :
          LET lim == limiters.state[id]
          IN /\ t_pc[t] = "waiting"
             /\ \E i \in DOMAIN lim.waiters : lim.waiters[i].task = t /\ lim.waiters[i].done
             /\ limiters' = [limiters EXCEPT !.state[id] = resume(lim, t, now)]
             /\ t_pc' = [t_pc EXCEPT ![t] = "idle"]
             /\ grants' = Append(grants, [time |-> now, limiter |-> id])
    /\ UNCHANGED <<now, rate, period, sem_value, sem_waiters, release_tasks, n_calls,
                   retry_cfg, t_retry, t_due, gets, storageVars, fetcherVars, schedVars,
                   txVars, market, resp, closing, clients, lateVars>>

SL_DelayedRelease ==
    /\ \E id \in DOMAIN limiters.state :
          LET lim == limiters.state[id]
          IN /\ lim.release_tasks # <<>>
             /\ Head(lim.release_tasks).due <= now
             /\ limiters' = [limiters EXCEPT !.state[id] = delayed_release(lim)]
    /\ UNCHANGED <<storageVars, fetcherVars, schedVars, netVars, txVars, market, resp,
                   closing, clients, lateVars>>

SL_Ready ==
    \E id \in DOMAIN limiters.state :
        LET lim == limiters.state[id]
        IN \/ lim.release_tasks # <<>> /\ Head(lim.release_tasks).due <= now
           \/ \E i \in DOMAIN lim.waiters : lim.waiters[i].done

SL_Tick ==
    /\ ~SL_Ready
    /\ n_calls > 0
    /\ now < MaxTime
    /\ now' = now + 1
    /\ UNCHANGED <<rate, period, sem_value, sem_waiters, release_tasks, grants, n_calls,
                   t_pc, retry_cfg, t_retry, t_due, gets, storageVars, fetcherVars,
                   schedVars, extVars>>

InitShared ==
    /\ InitStorageTables
    /\ NoFetcher
    /\ NoScheduler
    /\ NoTxn
    /\ market = AnyMarket
    /\ resp = None
    /\ closing = None
    /\ clients = None
    /\ limiters = NoLimiters
    /\ NoLate
    /\ now = 0
    /\ rate \in 0..MaxRate
    /\ period = 1
    /\ sem_value = 1
    /\ sem_waiters = <<>>
    /\ release_tasks = <<>>
    /\ grants = <<>>
    /\ retry_cfg = [attempts |-> 1, base_delay |-> 1, exceptions |-> {}]
    /\ NoTasks

NextShared ==
    \/ SL_NewLimiter
    \/ SL_NewProvider
    \/ SL_FetchDaily
    \/ SL_Resume
    \/ SL_DelayedRelease
    \/ SL_Tick

SpecShared == InitShared /\ [][NextShared]_vars

(***************************************************************************)
(* C18: the providers draw their permits from one limiter: with `rate` and *)
(* `per` of the limiter a provider holds, rate + 1 permits are never       *)
(* granted, over all providers together, within less than `per`.           *)
(***************************************************************************)
C18_OneSharedLimiter ==
    \A p \in DOMAIN limiters.of :
        LET lim == limiters.state[limiters.of[p]]
        IN \A i \in DOMAIN grants :
              (i + lim.rate) \in DOMAIN grants =>
                  grants[i + lim.rate].time >= grants[i].time + lim.period

(***************************************************************************)
(* C20: the construction of an AsyncRateLimiter raises exactly when rate   *)
(* or per is not positive and then leaves no limiter; every limiter that   *)
(* exists, and so every limiter that granted a permit, has a positive rate *)
(* and a positive period.                                                  *)
(***************************************************************************)
C20_NonPositiveRefused ==
    /\ limiters.last # None =>
          /\ limiters.last.raised <=> (limiters.last.rate <= 0 \/ limiters.last.per <= 0)
          /\ limiters.last.raised => limiters.last.id \notin DOMAIN limiters.state
    /\ \A id \in DOMAIN limiters.state :
          limiters.state[id].rate > 0 /\ limiters.state[id].period > 0
    /\ \A i \in DOMAIN grants :
          /\ grants[i].limiter \in DOMAIN limiters.state
          /\ limiters.state[grants[i].limiter].rate > 0
          /\ limiters.state[grants[i].limiter].period > 0

\* AsyncRateLimiter(rate=2, per=0) was refused
C20_Witness ==
    /\ limiters.last # None
    /\ limiters.last.raised
    /\ limiters.last.rate = 2
    /\ limiters.last.per = 0
    /\ limiters.state = <<>>

\* AsyncRateLimiter(rate=0, per=1) was refused when a provider made its own,
\* while another provider drew permits from the limiter it was given
C20_WitnessRate ==
    /\ limiters.last # None
    /\ limiters.last.raised
    /\ limiters.last.rate = 0
    /\ grants # <<>>

(***************************************************************************)
(* C19: a retry policy with attempts < 1 is refused when it is made: a     *)
(* provider configured with it never acquires a permit of the limiter,     *)
(* never sends a request, and no call of it gets as far as the wrapper.    *)
(***************************************************************************)
C19_InvalidAttemptsRejected ==
    retry_cfg.attempts < 1 =>
        /\ grants = <<>>
        /\ gets = <<>>
        /\ \A t \in ProviderTasks : t_retry[t].pc # "raised"

(***************************************************************************)
(* C21: no step removes a row: the keys of securities, of daily_bars and   *)
(* of adjustment_factors after a step include the keys before it.          *)
(***************************************************************************)
SecurityKeys(table) == {r.symbol : r \in table}

DatedKeys(table) == {<<r.symbol, r.trade_date>> : r \in table}

C21_RowsNeverRemoved ==
    [][/\ SecurityKeys(securities) \subseteq SecurityKeys(securities')
       /\ DatedKeys(daily_bars) \subseteq DatedKeys(daily_bars')
       /\ DatedKeys(adjustment_factors) \subseteq DatedKeys(adjustment_factors')]_vars

\* two batches were committed on one table, the second writing a key of the
\* first again, and the table holds the keys of both
C21_Witness ==
    /\ Len(tx_commits) = 2
    /\ tx_commits[1].kind = "daily_bars"
    /\ tx_commits[2].kind = "daily_bars"
    /\ \E i, j \in 1..2 : SameKey(tx_commits[1].records[i], tx_commits[2].records[j])
                          /\ tx_commits[1].records[i] # tx_commits[2].records[j]
    /\ Cardinality(daily_bars) = 2

(***************************************************************************)
(* C22: self._providers holds every provider given once, by priority,      *)
(* highest first, and providers of equal priority in the order in which    *)
(* they were given (the ids count the input positions); no step changes    *)
(* it, and every fetch calls the providers in this order.                  *)
(***************************************************************************)
C22_StableOrderFixedOnce ==
    /\ [](/\ {providers[i].id : i \in DOMAIN providers} = 1..Len(providers)
          /\ \A i, j \in DOMAIN providers :
                i < j => \/ providers[i].priority > providers[j].priority
                         \/ /\ providers[i].priority = providers[j].priority
                            /\ providers[i].id < providers[j].id
          /\ \A i \in DOMAIN f_calls : f_calls[i].id = providers[i].id)
    /\ [][providers' = providers]_vars

\* two providers of the same priority: the one given first was called first
C22_Witness ==
    /\ Len(providers) = 2
    /\ providers[1].priority = providers[2].priority
    /\ f_pc = "returned"
    /\ Len(f_calls) = 2
    /\ f_calls[1].id = 1
    /\ f_calls[2].id = 2

(***************************************************************************)
(* load_trading_calendar called for a window, with or without a calendar   *)
(* file.                                                                   *)
(***************************************************************************)
Cal_Load ==
    /\ calendar_run.pc = "idle"
    /\ calendar_run' = [calendar_run EXCEPT
          !.pc = "returned",
          !.result = load_trading_calendar(calendar_run.file, calendar_run.start,
                                           calendar_run.end)]
    /\ UNCHANGED <<storageVars, fetcherVars, schedVars, netVars, txVars, market, resp,
                   closing, clients, limiters, client_req, listing, clean_call>>

InitCalendar ==
    /\ InitStorageTables
    /\ NoFetcher
    /\ NoScheduler
    /\ NoNetwork
    /\ NoTxn
    /\ market = AnyMarket
    /\ resp = None
    /\ closing = None
    /\ clients = None
    /\ limiters = None
    /\ client_req = None
    /\ listing = None
    /\ clean_call = None
    /\ \E file \in {None} \cup {[lines |-> l] : l \in SeqsUpTo(CalendarLines, MaxLines)},
          start \in 1..MaxDay, end \in 1..MaxDay :
          calendar_run = [file |-> file, start |-> start, end |-> end, pc |-> "idle",
                          result |-> <<>>]

NextCalendar == Cal_Load

SpecCalendar == InitCalendar /\ [][NextCalendar]_vars

(***************************************************************************)
(* C23: the calendar returned holds only dates of [start, end], in         *)
(* ascending order, and without a file exactly the weekdays of the window. *)
(***************************************************************************)
C23_CalendarWithinWindowAscending ==
    calendar_run.pc = "returned" =>
        LET cal == calendar_run.result
        IN /\ \A i \in DOMAIN cal : calendar_run.start <= cal[i] /\ cal[i] <= calendar_run.end
           /\ \A i, j \in DOMAIN cal : i < j => cal[i] < cal[j]
           /\ calendar_run.file = None =>
                 Range(cal) = {d \in calendar_run.start..calendar_run.end : weekday(d) < 5}

(***************************************************************************)
(* Ashare_data/client.py: AshareClient.  One client is used by two threads *)
(* through the sync API and by one task through the async API.  Times are  *)
(* whole units of time.monotonic(); min_interval is                        *)
(* 1 / rate_limit_per_second, 0 when no rate limit is set.                 *)
(*                                                                         *)
(* client_req is [cfg, now, last, lock, req, sends]: the client's          *)
(* parameters, the clock, _last_request_time_sync/_async and the holder of *)
(* _sync_lock/_async_lock by API, each caller's request [pc, attempt, due, *)
(* outcomes, sleeps, error], and the history of the requests sent          *)
(* [time, caller, attempt].                                                *)
(***************************************************************************)
Callers == {"thread1", "thread2", "task1"}

api(c) == IF c = "task1" THEN "async" ELSE "sync"

ClientConfigs ==
    [max_retries : 0..MaxRetries, backoff_factor : 0..MaxBackoff,
     min_interval : {0, 1, MaxInterval}]

RECURSIVE pow2(_)
pow2(n) == IF n = 0 THEN 1 ELSE 2 * pow2(n - 1)

\* what an attempt can end with: the JSON of a 2xx response, a non-2xx
\* status (httpx.HTTPStatusError), a body that is not JSON (ValueError)
AttemptOutcomes == {"json", "HTTPStatusError", "ValueError"}

\* except httpx.HTTPError only
caught_http_only(outcome) == outcome = "HTTPStatusError"

\* except (httpx.HTTPError, ValueError)
caught(outcome) == outcome \in {"HTTPStatusError", "ValueError"}

NoRequest ==
    [pc |-> "idle", attempt |-> 0, due |-> 0, outcomes |-> <<>>, sleeps |-> <<>>,
     error |-> "none"]

\* AshareClient(...): __post_init__ accepts max_retries >= 0
AshareClient(cfg, clock) ==
    [cfg |-> cfg, now |-> clock, last |-> [a \in {"sync", "async"} |-> 0],
     lock |-> [a \in {"sync", "async"} |-> "free"],
     req |-> [c \in Callers |-> NoRequest], sends |-> {}]

\* for attempt in range(self.max_retries + 1): if self._min_interval: ...
loop_turn(cl, c, attempt) ==
    IF attempt >= cl.cfg.max_retries + 1
    THEN [cl EXCEPT !.req[c].pc = "raised", !.req[c].error = "AshareClientError"]
    ELSE [cl EXCEPT !.req[c].attempt = attempt,
                    !.req[c].pc = IF cl.cfg.min_interval # 0 THEN "limit" ELSE "send"]

\* _apply_rate_limit_sync/_async from taking the lock: wait_for, the sleep
apply_rate_limit(cl, c) ==
    LET wait_for == cl.cfg.min_interval - (cl.now - cl.last[api(c)])
    IN IF wait_for > 0
       THEN [cl EXCEPT !.lock[api(c)] = c, !.req[c].pc = "limit_sleep",
                       !.req[c].due = cl.now + wait_for]
       ELSE [cl EXCEPT !.last[api(c)] = cl.now, !.req[c].pc = "send"]

\* after the sleep: now = time.monotonic(); self._last_request_time = now
rate_limit_passed(cl, c) ==
    [cl EXCEPT !.last[api(c)] = cl.now, !.lock[api(c)] = "free", !.req[c].pc = "send"]

\* the try block and its except clause, for the outcome of the attempt
after_attempt(cl, c, outcome) ==
    LET r == cl.req[c]
        sent == [cl EXCEPT !.sends = @ \cup {[time |-> cl.now, caller |-> c,
                                               attempt |-> r.attempt]},
                           !.req[c].outcomes = Append(@, outcome)]
        delay == cl.cfg.backoff_factor * pow2(r.attempt)
    IN IF outcome = "json" THEN [sent EXCEPT !.req[c].pc = "returned"]
       ELSE IF ~caught(outcome)
       THEN [sent EXCEPT !.req[c].pc = "raised", !.req[c].error = outcome]
       ELSE IF r.attempt = cl.cfg.max_retries
       THEN [sent EXCEPT !.req[c].pc = "raised", !.req[c].error = "AshareClientError"]
       ELSE IF delay > 0
       THEN [sent EXCEPT !.req[c].pc = "backoff", !.req[c].due = cl.now + delay,
                         !.req[c].sleeps = Append(@, delay)]
       ELSE loop_turn([sent EXCEPT !.req[c].sleeps = Append(@, delay)], c, r.attempt + 1)

AC_UNCHANGED ==
    UNCHANGED <<storageVars, fetcherVars, schedVars, netVars, txVars, market, resp,
                closing, clients, limiters, calendar_run, listing, clean_call>>

\* fetch_stock_list / fetch_daily_kline or their async forms: _request_sync
AC_Request ==
    /\ \E c \in Callers :
          /\ client_req.req[c].pc = "idle"
          \* two of the three callers make a request
          /\ \E d \in Callers \ {c} : client_req.req[d].pc = "idle"
          /\ client_req' = loop_turn(client_req, c, 0)
    /\ AC_UNCHANGED

AC_ApplyRateLimit ==
    /\ \E c \in Callers :
          /\ client_req.req[c].pc = "limit"
          /\ client_req.lock[api(c)] = "free"
          /\ client_req' = apply_rate_limit(client_req, c)
    /\ AC_UNCHANGED

AC_RateLimitSleepElapses ==
    /\ \E c \in Callers :
          /\ client_req.req[c].pc = "limit_sleep"
          /\ client_req.req[c].due <= client_req.now
          /\ client_req' = rate_limit_passed(client_req, c)
    /\ AC_UNCHANGED

AC_Attempt ==
    /\ \E c \in Callers, outcome \in AttemptOutcomes :
          /\ client_req.req[c].pc = "send"
          /\ client_req' = after_attempt(client_req, c, outcome)
    /\ AC_UNCHANGED

AC_BackoffElapses ==
    /\ \E c \in Callers :
          /\ client_req.req[c].pc = "backoff"
          /\ client_req.req[c].due <= client_req.now
          /\ client_req' = loop_turn(client_req, c, client_req.req[c].attempt + 1)
    /\ AC_UNCHANGED

AC_Ready ==
    \E c \in Callers :
        \/ client_req.req[c].pc \in {"send"}
        \/ client_req.req[c].pc = "limit" /\ client_req.lock[api(c)] = "free"
        \/ client_req.req[c].pc \in {"limit_sleep", "backoff"}
              /\ client_req.req[c].due <= client_req.now

AC_Tick ==
    /\ ~AC_Ready
    /\ \E c \in Callers : client_req.req[c].pc \in {"limit_sleep", "backoff"}
    /\ client_req' = [client_req EXCEPT !.now = @ + 1]
    /\ AC_UNCHANGED

InitAshareClient ==
    /\ InitStorageTables
    /\ NoFetcher
    /\ NoScheduler
    /\ NoNetwork
    /\ NoTxn
    /\ market = AnyMarket
    /\ resp = None
    /\ closing = None
    /\ clients = None
    /\ limiters = None
    /\ calendar_run = None
    /\ listing = None
    /\ clean_call = None
    /\ \E cfg \in ClientConfigs : client_req = AshareClient(cfg, MaxInterval)

NextAshareClient ==
    \/ AC_Request
    \/ AC_ApplyRateLimit
    \/ AC_RateLimitSleepElapses
    \/ AC_Attempt
    \/ AC_BackoffElapses
    \/ AC_Tick

SpecAshareClient == InitAshareClient /\ [][NextAshareClient]_vars

(***************************************************************************)
(* C24: a request makes at most max_retries + 1 attempts; it returns at    *)
(* the first attempt that gives JSON, after failed attempts only, and      *)
(* makes no attempt after it; and when every attempt ended with a non-2xx  *)
(* status or a body that is not JSON it raises AshareClientError after     *)
(* exactly max_retries + 1 attempts.                                       *)
(***************************************************************************)
C24_AtMostMaxRetriesPlusOne ==
    \A c \in Callers :
        LET r == client_req.req[c]
            n == Len(r.outcomes)
        IN /\ n <= client_req.cfg.max_retries + 1
           /\ \A i \in 1..(n - 1) : r.outcomes[i] # "json"
           /\ r.pc = "returned" <=> (n > 0 /\ r.outcomes[n] = "json")
           /\ r.pc = "raised" <=>
                 /\ n = client_req.cfg.max_retries + 1
                 /\ r.outcomes[n] # "json"
           /\ r.pc = "raised" => r.error = "AshareClientError"

\* max_retries = 2: a status error, a body that is not JSON and a status
\* error: AshareClientError after three attempts; another caller got JSON at
\* its second attempt
C24_Witness ==
    /\ client_req.cfg.max_retries = 2
    /\ \E c, d \in Callers :
          /\ client_req.req[c].pc = "raised"
          /\ client_req.req[c].outcomes = <<"HTTPStatusError", "ValueError", "HTTPStatusError">>
          /\ client_req.req[d].pc = "returned"
          /\ client_req.req[d].outcomes = <<"ValueError", "json">>

(***************************************************************************)
(* C25: with a rate limit set, any two requests sent by one AshareClient,  *)
(* retries included, through the sync API, the async API or concurrent     *)
(* threads and tasks, start at least min_interval                          *)
(* (1 / rate_limit_per_second) apart.                                      *)
(***************************************************************************)
C25_RequestsSpacedByMinInterval ==
    client_req.cfg.min_interval > 0 =>
        \A s1, s2 \in client_req.sends :
            (s1 # s2 /\ s1.time <= s2.time) =>
                s2.time - s1.time >= client_req.cfg.min_interval

(***************************************************************************)
(* C26: the waiting time before the next attempt after n consecutive       *)
(* failed attempts (1 <= n <= max_retries) is backoff_factor * 2^n.        *)
(***************************************************************************)
C26_BackoffAfterNFailures ==
    \A c \in Callers :
        \A n \in 1..Len(client_req.req[c].sleeps) :
            client_req.req[c].sleeps[n] = client_req.cfg.backoff_factor * pow2(n)

(***************************************************************************)
(* list_all_stocks (stocks.py): the paginated listing of the securities.   *)
(*                                                                         *)
(* A field of a JSON object is [t, s, n]: missing, null, a text s or a     *)
(* number n.  A response is [status, json, data, diff, items]: the status  *)
(* code, whether the body is JSON, whether `data` is missing, null or an   *)
(* object, whether its `diff` is missing, null or an array, and the        *)
(* entries of the array.                                                   *)
(*                                                                         *)
(* listing is [pc, owns, page, requests, pages, stocks, error, closed]:    *)
(* where the call is, whether it made its own client, the page number,     *)
(* the page numbers requested so far, the responses received so far, the   *)
(* stocks collected, the exception raised, whether the client was closed.  *)
(***************************************************************************)
Text(s) == [t |-> "text", s |-> s, n |-> 0]

Number(n) == [t |-> "number", s |-> "", n |-> n]

Missing == [t |-> "missing", s |-> "", n |-> 0]

Null == [t |-> "null", s |-> "", n |-> 0]

\* raw.get(key): None for a missing key and for null
is_None(field) == field.t \in {"missing", "null"}

\* `not x` for the value of a field: None, "" and 0 are falsy
falsy(field) ==
    \/ is_None(field)
    \/ field.t = "text" /\ field.s = ""
    \/ field.t = "number" /\ field.n = 0

\* str(market) for the market numbers of the listing
str(field) ==
    CASE field.t = "text" -> field.s
      [] field.t = "number" /\ field.n = 0 -> "0"
      [] field.t = "number" /\ field.n = 1 -> "1"

Stock(code, name, market_str) == [code |-> code, name |-> name, market |-> market_str]

\* if not code or not name or not market: return None
parse_stock_falsy_market(raw) ==
    IF falsy(raw.f12) \/ falsy(raw.f14) \/ falsy(raw.f13)
    THEN None
    ELSE Stock(raw.f12.s, raw.f14.s, str(raw.f13))

\* _parse_stock: if not code or not name or market is None: return None
parse_stock(raw) ==
    IF falsy(raw.f12) \/ falsy(raw.f14) \/ is_None(raw.f13)
    THEN None
    ELSE Stock(raw.f12.s, raw.f14.s, str(raw.f13))

PingAn == [f12 |-> Text("000001"), f13 |-> Number(0), f14 |-> Text("Ping An Bank")]

Vanke == [f12 |-> Text("000002"), f13 |-> Number(0), f14 |-> Text("Vanke")]

PFBank == [f12 |-> Text("600000"), f13 |-> Number(1), f14 |-> Text("PF Bank")]

\* the arrays of entries a page can carry: whole entries, and entries with
\* the code missing, the name empty or the market null
DiffArrays ==
    { <<PingAn, Vanke>>,
      <<PFBank>>,
      <<[PingAn EXCEPT !.f12 = Missing], PFBank>>,
      <<[Vanke EXCEPT !.f14 = Text("")]>>,
      <<PFBank, [PingAn EXCEPT !.f13 = Null]>> }

Response(status, json, data, diff, items) ==
    [status |-> status, json |-> json, data |-> data, diff |-> diff, items |-> items]

\* a 2xx page with entries
FullPages == {Response(200, TRUE, "object", "array", items) : items \in DiffArrays}

\* a 2xx page whose data or diff is missing, null or empty
EmptyPages ==
    { Response(200, TRUE, "missing", "missing", <<>>),
      Response(200, TRUE, "null", "missing", <<>>),
      Response(200, TRUE, "object", "missing", <<>>),
      Response(200, TRUE, "object", "null", <<>>),
      Response(200, TRUE, "object", "array", <<>>) }

\* a non-2xx response, and a 2xx response whose body is not JSON
FailedResponses ==
    { Response(500, TRUE, "missing", "missing", <<>>),
      Response(404, FALSE, "missing", "missing", <<>>),
      Response(200, FALSE, "missing", "missing", <<>>) }

\* response.is_success
is_success(response) == response.status \in 200..299

\* list_all_stocks(client) up to the loop
list_all_stocks(owns) ==
    [pc |-> "request", owns |-> owns, page |-> 1, requests |-> <<>>, pages |-> <<>>,
     stocks |-> <<>>, error |-> "none", closed |-> FALSE]

\* finally: if close_client: await client.aclose()
leave(l, pc, error) ==
    [l EXCEPT !.pc = pc, !.error = error, !.closed = l.owns]

\* response = await client.get(_API_URL, params={"pn": page, ...})
client_get(l) ==
    [l EXCEPT !.pc = "response", !.requests = Append(@, l.page)]

\* the body of the loop from raise_for_status() on, for the response
loop_body(l, response) ==
    LET got == [l EXCEPT !.pages = Append(@, response)]
        parsed_page == [i \in 1..Len(response.items) |-> parse_stock(response.items[i])]
    IN IF ~is_success(response) THEN leave(got, "raised", "HTTPStatusError")
       ELSE IF ~response.json THEN leave(got, "raised", "ValueError")
       ELSE IF response.data \in {"missing", "null"} THEN leave(got, "returned", "none")
       ELSE IF response.diff \in {"missing", "null"} \/ response.items = <<>>
       THEN leave(got, "returned", "none")
       ELSE [got EXCEPT !.stocks = @ \o SelectSeq(parsed_page, LAMBDA s : s # None),
                        !.page = @ + 1,
                        !.pc = "request"]

LS_UNCHANGED ==
    UNCHANGED <<storageVars, fetcherVars, schedVars, netVars, txVars, market, resp,
                closing, clients, limiters, calendar_run, client_req, clean_call>>

LS_Get ==
    /\ listing.pc = "request"
    /\ listing' = client_get(listing)
    /\ LS_UNCHANGED

\* the source has at most MaxPages pages with entries
LS_Response ==
    /\ listing.pc = "response"
    /\ \E response \in (IF listing.page <= MaxPages THEN FullPages ELSE {})
                          \cup EmptyPages \cup FailedResponses :
          listing' = loop_body(listing, response)
    /\ LS_UNCHANGED

InitListing ==
    /\ InitStorageTables
    /\ NoFetcher
    /\ NoScheduler
    /\ NoNetwork
    /\ NoTxn
    /\ market = AnyMarket
    /\ resp = None
    /\ closing = None
    /\ clients = None
    /\ limiters = None
    /\ calendar_run = None
    /\ client_req = None
    /\ clean_call = None
    /\ \E owns \in BOOLEAN : listing = list_all_stocks(owns)

NextListing ==
    \/ LS_Get
    \/ LS_Response

SpecListing == InitListing /\ [][NextListing]_vars

\* the entries of a page that have a code, a name and a market, as stocks
RECURSIVE StocksOf(_)
StocksOf(items) ==
    IF items = <<>> THEN <<>>
    ELSE LET e == items[Len(items)]
             whole == /\ e.f12.t = "text" /\ e.f12.s # ""
                      /\ e.f14.t = "text" /\ e.f14.s # ""
                      /\ e.f13.t \in {"text", "number"}
         IN StocksOf(SubSeq(items, 1, Len(items) - 1))
              \o (IF whole THEN <<Stock(e.f12.s, e.f14.s, str(e.f13))>> ELSE <<>>)

RECURSIVE StocksOfPages(_)
StocksOfPages(pages) ==
    IF pages = <<>> THEN <<>>
    ELSE StocksOfPages(SubSeq(pages, 1, Len(pages) - 1)) \o StocksOf(pages[Len(pages)].items)

(***************************************************************************)
(* C27: list_all_stocks requests the pages 1, 2, 3, ... in order; it stops *)
(* at the first page whose data or diff is absent or empty, so k pages     *)
(* with entries cause exactly k + 1 requests, and returns the stocks of    *)
(* the earlier pages in page order, without the entries that lack a code,  *)
(* a name or a market; a non-2xx response raises HTTPStatusError at once,  *)
(* with no retry and no further request.                                   *)
(***************************************************************************)
C27_PaginatesUntilEmptyPage ==
    LET l == listing
        n == Len(l.pages)
        k == Cardinality({i \in 1..n : l.pages[i] \in FullPages})
        last == l.pages[n]
    IN /\ \A i \in 1..Len(l.requests) : l.requests[i] = i
       /\ Len(l.requests) = IF l.pc = "response" THEN n + 1 ELSE n
       /\ \A i \in 1..(n - 1) : l.pages[i] \in FullPages
       /\ l.pc = "request" => k = n
       /\ l.pc # "raised" => l.stocks = StocksOfPages(SubSeq(l.pages, 1, k))
       /\ l.pc = "returned" <=> (n > 0 /\ last \in EmptyPages)
       /\ l.pc = "returned" => Len(l.requests) = k + 1
       /\ (n > 0 /\ ~is_success(last)) =>
             /\ l.pc = "raised"
             /\ l.error = "HTTPStatusError"
             /\ Len(l.requests) = n

\* two pages with entries and an empty third one: three requests, and the
\* three whole entries of the four are returned in page order
C27_Witness ==
    /\ listing.pc = "returned"
    /\ listing.requests = <<1, 2, 3>>
    /\ listing.pages[1].items = <<PingAn, Vanke>>
    /\ listing.pages[2].items = <<[PingAn EXCEPT !.f12 = Missing], PFBank>>
    /\ listing.stocks = <<Stock("000001", "Ping An Bank", "0"),
                          Stock("000002", "Vanke", "0"),
                          Stock("600000", "PF Bank", "1")>>

(***************************************************************************)
(* run_daily_update cancelled: the task is cancelled while it waits in one *)
(* of its awaits, and CancelledError ends the run there.  A Storage call   *)
(* runs in a worker thread (asyncio.to_thread), which a cancellation does  *)
(* not stop: the write the run was waiting for can still be committed      *)
(* after the run has ended.                                                *)
(***************************************************************************)
IsCancel(e) == e.call = "cancelled"

DU_Cancel ==
    /\ s_mode = "daily"
    /\ \/ s_pc = "du_list"
       \/ s_pc = "du_missing" /\ s_i <= Len(s_symbols)
       \/ s_pc = "du_loop" /\ s_i <= Len(s_missing_map) /\ s_missing_map[s_i].value
       \/ s_pc = "du_upsert"
    /\ Abort(Event("cancelled", "", today, TRUE,
                   IF s_pc = "du_upsert" THEN <<s_bar>> ELSE <<>>))
    /\ UNCHANGED <<today, s_mode, s_symbols, s_calendar, s_i, s_j, s_bars, s_missing_map,
                   s_bar, s_missing_at_start, s_prev, s_symbols_arg, storageVars, fetcherVars,
                   netVars, extVars>>

\* the worker thread of the write that was cancelled commits
DU_WriterCommits ==
    /\ s_mode = "daily"
    /\ s_pc = "aborted"
    /\ s_events # <<>>
    /\ LET e == s_events[Len(s_events)]
       IN /\ IsCancel(e)
          /\ e.bars # <<>>
          /\ daily_bar_record(e.bars[1]) \notin daily_bars
          /\ upsert_daily_bars(e.bars, FALSE)
    /\ UNCHANGED <<securities, adjustment_factors, fetcherVars, schedVars, netVars, extVars>>

NextCancel ==
    \/ UpsertSecurities
    \/ DU_Start
    \/ DU_StartTracked
    \/ DU_ListTracked
    \/ DU_ComputeMissing
    \/ DU_MissingComputed
    \/ DU_Skip
    \/ DU_Fetch
    \/ DU_Upsert
    \/ DU_Done
    \/ DU_Cancel
    \/ DU_WriterCommits

SpecCancel == InitScheduler /\ [][NextCancel]_vars

\* the fetches of the run that returned a Bar
BarIndices == {k \in FetchIndices : s_events[k].bars # <<>>}

Unpersisted == {k \in BarIndices : daily_bar_record(s_events[k].bars[1]) \notin daily_bars}

(***************************************************************************)
(* C28: run_daily_update upserts each fetched Bar as a batch of its own    *)
(* before it fetches the next symbol: the call after a fetch that returned *)
(* a Bar is the upsert of that Bar alone.  So wherever the run stops, by   *)
(* cancellation or by a Storage failure, every Bar fetched for an earlier  *)
(* symbol is in Storage, and at most one fetched Bar, the last one, is not *)
(* persisted.                                                              *)
(***************************************************************************)
C28_EachBarStoredBeforeNextFetch ==
    s_mode = "daily" =>
        /\ \A k \in BarIndices :
              k < Len(s_events) =>
                 /\ IsUpsert(s_events[k + 1]) \/ IsCancel(s_events[k + 1])
                 /\ s_events[k + 1].bars = s_events[k].bars
                 /\ Len(s_events[k].bars) = 1
        /\ \A k \in DOMAIN s_events : IsUpsert(s_events[k]) => k - 1 \in BarIndices
        /\ Cardinality(Unpersisted) <= 1
        /\ \A k \in Unpersisted :
              /\ \A j \in BarIndices : j <= k
              /\ s_pc \in {"du_upsert", "aborted"}
              /\ s_pc = "aborted" => k = Len(s_events) - 1

\* the Bar of 000001 was stored, then the run was cancelled while it waited
\* for the write of the Bar of 600000
C28_Witness ==
    /\ s_mode = "daily"
    /\ s_pc = "aborted"
    /\ IsCancel(s_events[Len(s_events)])
    /\ Cardinality(BarIndices) = 2
    /\ Cardinality(Unpersisted) = 1
    /\ HasBar("000001", today)
    /\ ~HasBar("600000", today)

(***************************************************************************)
(* AsyncRateLimiter under a fair event loop: a callback that is ready is   *)
(* run, and the clock goes on while a sleep is pending.  The clock has no  *)
(* bound here: it stops of itself when the last _delayed_release is done.  *)
(***************************************************************************)
\* the event loop waits for the next timer: time.monotonic() goes on
L_TimePasses ==
    /\ ~Ready
    /\ release_tasks # <<>>
    /\ now' = now + 1
    /\ UNCHANGED <<rate, period, sem_value, sem_waiters, release_tasks, grants, n_calls,
                   t_pc, retry_cfg, t_retry, t_due, gets, storageVars, fetcherVars,
                   schedVars, extVars>>

NextLimiterFair ==
    \/ L_Acquire
    \/ L_Resume
    \/ DelayedRelease
    \/ L_TimePasses

SpecLimiterFair ==
    /\ InitLimiter
    /\ [][NextLimiterFair]_vars
    /\ WF_vars(L_Resume)
    /\ WF_vars(DelayedRelease)
    /\ WF_vars(L_TimePasses)

\* the permits that have come back to the semaphore
Returned == Len(grants) - Len(release_tasks)

(***************************************************************************)
(* C29: under a fair event loop and a clock that goes on, every caller     *)
(* suspended in acquire() is granted a permit in the end; every permit     *)
(* granted comes back, whatever its holder does with it; and the permits   *)
(* in the pool and the permits out are always `rate` in all.               *)
(***************************************************************************)
C29_SuspendedCallerEventuallyGranted ==
    /\ \A t \in Tasks : (t_pc[t] = "waiting") ~> (t_pc[t] = "idle")
    /\ \A n \in 1..MaxCalls : (Len(grants) >= n) ~> (Returned >= n)
    /\ [](sem_value + Len(release_tasks) + Cardinality(HandedOver) = rate)

\* rate 1, per 2: the second and the third caller were suspended and were
\* granted at times 2 and 4, and the three permits are back
C29_Witness ==
    /\ rate = 1
    /\ period = 2
    /\ grants = <<0, 2, 4>>
    /\ Returned = 3
    /\ sem_value = 1

(***************************************************************************)
(* C30: during a run of run_initial_load on a new database, Storage holds  *)
(* Bars only for symbols whose whole calendar has been walked; if the run  *)
(* stops while symbol k is being fetched or written, none of the Bars of   *)
(* symbol k is persisted, the Bars of every symbol before k are, and no    *)
(* symbol after k has been fetched.                                        *)
(***************************************************************************)
C30_StoppedSymbolNotPersisted ==
    (s_mode = "initial" /\ s_prev = "idle") =>
        LET walked(i) == i < s_i \/ (i = s_i /\ s_j > Len(s_calendar))
            before(i) == {s_symbols[j] : j \in 1..(i - 1)}
        IN /\ \A r \in daily_bars :
                 \E i \in DOMAIN s_symbols : s_symbols[i] = r.symbol /\ walked(i)
           /\ \A i \in DOMAIN s_symbols :
                 i < s_i => \A j \in DOMAIN s_calendar :
                               s_calendar[j] \notin market.closed
                                  => HasBar(s_symbols[i], s_calendar[j])
           /\ \A k \in DOMAIN s_events : s_events[k].symbol = s_symbols[s_i]
           /\ (s_pc = "aborted" /\ s_i <= Len(s_symbols)
                 /\ s_symbols[s_i] \notin before(s_i))
                 => s_symbols[s_i] \notin StoredSymbols

(***************************************************************************)
(* C31: async_retry stops as early as it can.  When the k-th call of the   *)
(* wrapped function returns (k <= N), the function has been called exactly *)
(* k times with k - 1 sleeps and the wrapper returns that result; when a   *)
(* call raises an exception outside the configured set, the wrapper raises *)
(* that exception at once, with no sleep and no further call.              *)
(***************************************************************************)
C31_RetryStopsEarly ==
    LET st == t_retry["t1"]
        n == Len(st.calls)
        Outside(i) == st.calls[i].kind = "raise" /\ st.calls[i].exc \notin retry_cfg.exceptions
    IN st.pc # "none" =>
          /\ \A i \in 1..n :
                (st.calls[i].kind = "return" \/ Outside(i)) =>
                   /\ i = n
                   /\ i <= retry_cfg.attempts
                   /\ Len(st.sleeps) = i - 1
                   /\ \A j \in 1..(i - 1) :
                         st.calls[j].kind = "raise" /\ st.calls[j].exc \in retry_cfg.exceptions
          /\ (n > 0 /\ st.calls[n].kind = "return") =>
                st.pc = "returned" /\ st.result = st.calls[n]
          /\ (n > 0 /\ Outside(n)) =>
                st.pc = "raised" /\ st.result = Exc(st.calls[n].exc, n)
          /\ st.pc = "returned" => n > 0 /\ st.calls[n].kind = "return"

\* attempts=3: two failed calls, sleeps of 1 and 2, and the third call's
\* result returned
C31_Witness ==
    LET st == t_retry["t1"]
    IN /\ retry_cfg.attempts = 3
       /\ retry_cfg.base_delay = 1
       /\ st.pc = "returned"
       /\ st.calls = <<Raises("ConnectError"), Raises("HTTPStatusError"), Returns("payload")>>
       /\ st.sleeps = <<1, 2>>
       /\ st.result = Returns("payload")

\* the first call failed and was retried, the second was cancelled: the
\* CancelledError is raised after one sleep
C31_WitnessOutside ==
    LET st == t_retry["t1"]
    IN /\ st.pc = "raised"
       /\ st.calls = <<Raises("ConnectError"), Raises("CancelledError")>>
       /\ st.sleeps = <<1>>
       /\ st.result = Exc("CancelledError", 2)

(***************************************************************************)
(* C32: run_daily_update has asked Storage for the missing dates of every  *)
(* symbol of its list before it makes its first fetch, and asks for none   *)
(* after it; it fetches a symbol at most once in a run, also when the list *)
(* names the symbol several times; and called with a symbol list, an empty *)
(* one included, it never calls list_tracked_symbols.                      *)
(***************************************************************************)
IsMissingQuery(e) == e.call = "missing_daily_dates"

C32_MissingComputedBeforeFirstFetch ==
    s_mode = "daily" =>
        LET queries == {k \in DOMAIN s_events : IsMissingQuery(s_events[k])}
        IN /\ \A q \in queries, f \in FetchIndices : q < f
           /\ FetchIndices # {} =>
                 /\ Cardinality(queries) = Len(s_symbols)
                 /\ {s_events[q].symbol : q \in queries} = Range(s_symbols)
                 /\ \A q \in queries : ~s_events[q].raised
           /\ \A j, k \in FetchIndices :
                 j # k => s_events[j].symbol # s_events[k].symbol
           /\ FetchedSymbols \subseteq Range(s_symbols)
           /\ s_symbols_arg # None =>
                 /\ s_symbols = s_symbols_arg.list
                 /\ s_pc # "du_list"
                 /\ \A k \in DOMAIN s_events : s_events[k].call # "list_tracked_symbols"

\* called with ["000001", "000001"]: two queries, then one fetch
C32_Witness ==
    /\ s_mode = "daily"
    /\ s_pc = "done"
    /\ s_symbols_arg = [list |-> <<"000001", "000001">>]
    /\ Len(s_events) >= 3
    /\ IsMissingQuery(s_events[1])
    /\ IsMissingQuery(s_events[2])
    /\ IsFetch(s_events[3])
    /\ Cardinality(FetchIndices) = 1

\* called with [] while a security is tracked: nothing is read or fetched
C32_WitnessEmptyList ==
    /\ s_mode = "daily"
    /\ s_pc = "done"
    /\ s_symbols_arg = [list |-> <<>>]
    /\ securities # {}
    /\ s_events = <<>>

(***************************************************************************)
(* DailyFetcher._clean on its own: called on any Bar a provider can hand   *)
(* over.  A price is 0..MaxPrice or NaN; open, volume and turnover can be  *)
(* None.  _clean assigns to the fields of the object it was given: `arg`   *)
(* keeps the fields as they were at the call.                              *)
(***************************************************************************)
Prices == 0..MaxPrice \cup {NaN}

Optional(S) == {<<>>} \cup {<<v>> : v \in S}

CleanArgs ==
    {ProviderResult(symbol, 1, open, high, low, close, volume, turnover,
                    [source |-> "qq"]) :
        symbol \in Symbols, open \in Optional(Prices), high \in Prices, low \in Prices,
        close \in Prices, volume \in Optional({0, 4}), turnover \in Optional({0, 5})}

Clean_Return ==
    /\ clean_call.pc = "called"
    /\ clean_call' = [clean_call EXCEPT !.pc = "returned", !.result = clean(clean_call.arg)]
    /\ UNCHANGED <<storageVars, fetcherVars, schedVars, netVars, txVars, market, resp,
                   closing, clients, limiters, calendar_run, client_req, listing>>

InitClean ==
    /\ InitStorageTables
    /\ NoFetcher
    /\ NoScheduler
    /\ NoNetwork
    /\ NoTxn
    /\ market = AnyMarket
    /\ resp = None
    /\ closing = None
    /\ clients = None
    /\ limiters = None
    /\ calendar_run = None
    /\ client_req = None
    /\ listing = None
    /\ \E arg \in CleanArgs : clean_call = [pc |-> "called", arg |-> arg, result |-> None]

NextClean == Clean_Return

SpecClean == InitClean /\ [][NextClean]_vars

(***************************************************************************)
(* C33: _clean leaves the symbol, the trade date, the raw payload and the  *)
(* close of a Bar as they were; it changes open only when the provider's   *)
(* open is zero or absent, and sets it to close then; nothing but high,    *)
(* low, volume and turnover is recomputed besides.                         *)
(***************************************************************************)
C33_CleanKeepsIdentityAndClose ==
    (clean_call # None /\ clean_call.pc = "returned") =>
        LET arg == clean_call.arg
            result == clean_call.result
            no_open == arg.open = <<>> \/ arg.open = <<0>>
        IN /\ DOMAIN result = DOMAIN arg
           /\ result.symbol = arg.symbol
           /\ result.trade_date = arg.trade_date
           /\ result.raw = arg.raw
           /\ result.close = arg.close
           /\ no_open => result.open = arg.close
           /\ ~no_open => result.open = arg.open[1]

\* open 0, close 2, high 1: open becomes 2, high is recomputed, close stays 2
C33_Witness ==
    /\ clean_call # None
    /\ clean_call.pc = "returned"
    /\ clean_call.arg.open = <<0>>
    /\ clean_call.arg.close = 2
    /\ clean_call.arg.high = 1
    /\ clean_call.result.open = 2
    /\ clean_call.result.high = 2
    /\ clean_call.result.close = 2

\* open 2 and close 1: open stays 2
C33_WitnessOpenKept ==
    /\ clean_call # None
    /\ clean_call.pc = "returned"
    /\ clean_call.arg.open = <<2>>
    /\ clean_call.arg.close = 1
    /\ clean_call.result.open = 2

=============================================================================
